---------------------------- MODULE Spec2Model ----------------------------
(***************************************************************************)
(* Model of the document mutation core of App-Informes-calificacion:       *)
(*   - PlaceholderEngine   (src/src/core/placeholder_engine.py)            *)
(*   - DynamicContentProcessor (src/generar_informe.py)                    *)
(*   - ImageReplacer       (src/src/core/image_replacer.py)                *)
(*                                                                         *)
(* Text is a sequence of one-character strings, so that substring search,  *)
(* str.replace and the token regular expression are computed, not assumed. *)
(***************************************************************************)
EXTENDS Integers, Sequences, FiniteSets, TLC

VARIABLES
    document,     \* the python-docx Document: body blocks and sections
    package,      \* relationships of the body/header/footer parts (static)
    media,        \* image parts: blob and content type
    drawings,     \* w:drawing elements of every part
    imageCache,   \* ImageReplacer._image_cache
    disk,         \* the files the program reads and writes
    proc,         \* the DocumentProcessor object, or the workers of a batch
    before,       \* snapshot of the mutable state before the last operation
    call          \* the last operation: its name, inputs and outcome

vars == <<document, package, media, drawings, imageCache, disk, proc, before, call>>

(***************************************************************************)
(* Bounds of the model                                                     *)
(***************************************************************************)
\* Number of operations performed on one engine/processor/replacer.
MaxCalls == 1

(***************************************************************************)
(* Text primitives (Python str and re)                                     *)
(***************************************************************************)
\* Characters matched by [a-zA-Z0-9_] among the characters the model uses.
NameChars == {"a", "b", "f", "g", "l", "m", "r", "x", "H", "U", "V", "W", "X", "Y", "Z"}

OPEN == <<"{", "{">>
CLOSE == <<"}", "}">>

\* f"{{{{{key}}}}}"
Tok(key) == OPEN \o key \o CLOSE

\* f"{{{{{key}.{field}}}}}"
FieldTok(key, field) == OPEN \o key \o <<".">> \o field \o CLOSE

\* s occurs in t starting at position i
IsPrefixAt(t, s, i) ==
    /\ i >= 1
    /\ i + Len(s) - 1 <= Len(t)
    /\ \A k \in 1..Len(s) : t[i + k - 1] = s[k]

\* Python `s in t` for a non-empty s
Contains(t, s) == \E i \in 1..Len(t) : IsPrefixAt(t, s, i)

RECURSIVE ReplaceFrom(_, _, _, _)
ReplaceFrom(t, old, new, i) ==
    IF i > Len(t) THEN <<>>
    ELSE IF IsPrefixAt(t, old, i)
         THEN new \o ReplaceFrom(t, old, new, i + Len(old))
         ELSE <<t[i]>> \o ReplaceFrom(t, old, new, i + 1)

\* Mutant: t.replace(old, new, 1), only the first occurrence is replaced.
StrReplaceFirst(t, old, new) ==
    IF \E i \in 1..Len(t) : IsPrefixAt(t, old, i)
    THEN LET i == CHOOSE j \in 1..Len(t) :
                    IsPrefixAt(t, old, j) /\ \A h \in 1..(j - 1) : ~IsPrefixAt(t, old, h)
         IN  SubSeq(t, 1, i - 1) \o new \o SubSeq(t, i + Len(old), Len(t))
    ELSE t

\* Python t.replace(old, new) for a non-empty old: every non-overlapping
\* occurrence, leftmost first.
StrReplace(t, old, new) == ReplaceFrom(t, old, new, 1)

\* The regular expression \{\{([a-zA-Z0-9_]+)\}\} matches t at i with a
\* name of n characters.
MatchAt(t, i, n) ==
    /\ n >= 1
    /\ IsPrefixAt(t, OPEN, i)
    /\ i + 1 + n <= Len(t)
    /\ \A k \in (i + 2)..(i + 1 + n) : t[k] \in NameChars
    /\ IsPrefixAt(t, CLOSE, i + 2 + n)

\* pattern.findall(t), as a set of names
PatternFindAll(t) ==
    { SubSeq(t, m[1] + 2, m[1] + 1 + m[2]) :
        m \in { mm \in (1..Len(t)) \X (1..Len(t)) : MatchAt(t, mm[1], mm[2]) } }

\* pattern.search(t) is not None
PatternSearch(t) == \E i \in 1..Len(t), n \in 1..Len(t) : MatchAt(t, i, n)

RECURSIVE Concat(_)
Concat(ss) == IF ss = <<>> THEN <<>> ELSE Head(ss) \o Concat(Tail(ss))

RECURSIVE JoinWith(_, _)
JoinWith(ss, sep) ==
    IF ss = <<>> THEN <<>>
    ELSE IF Len(ss) = 1 THEN ss[1]
    ELSE ss[1] \o sep \o JoinWith(Tail(ss), sep)

(***************************************************************************)
(* The document model (python-docx)                                        *)
(***************************************************************************)
DefaultFmt == "none"
DefaultStyle == "Normal"

Run(text, fmt) == [text |-> text, fmt |-> fmt]

\* A body block or a cell paragraph.  kind "p": runs; kind "tbl": children.
Para(id, style, runs) ==
    [kind |-> "p", id |-> id, style |-> style, runs |-> runs, children |-> <<>>]

Tbl(id, children) ==
    [kind |-> "tbl", id |-> id, style |-> DefaultStyle, runs |-> <<>>,
     children |-> children]

\* The Document: the children of w:body in order, the sections with the
\* paragraphs of their header and footer, and the identity given to the
\* next element created.
Doc(body, sections, nextId) ==
    [body |-> body, sections |-> sections, nextId |-> nextId]

\* A child element of w:tbl: w:tblPr, w:tblGrid or w:tr (with its cells; a
\* cell is a sequence of paragraphs).
TblChild(tag, id, cells) == [tag |-> tag, id |-> id, cells |-> cells]

\* Paragraph.text
ParaText(p) == Concat([i \in 1..Len(p.runs) |-> p.runs[i].text])

\* Paragraph.clear(): the runs are removed, the paragraph formatting stays
ParaClear(p) == [p EXCEPT !.runs = <<>>]

\* Paragraph.add_run(text): a new run without character formatting
ParaAddRun(p, text) == [p EXCEPT !.runs = Append(@, Run(text, DefaultFmt))]

\* Paragraph.text = text
ParaSetText(p, text) == ParaAddRun(ParaClear(p), text)

\* _Cell.text
CellText(cell) == JoinWith([i \in 1..Len(cell) |-> ParaText(cell[i])], <<"\n">>)

IsPara(b) == b.kind = "p"
IsTbl(b) == b.kind = "tbl"
IsRow(c) == c.tag = "tr"

\* Document.paragraphs / Document.tables: the body-level blocks of each kind
DocParagraphs(doc) == SelectSeq(doc.body, IsPara)
DocTables(doc) == SelectSeq(doc.body, IsTbl)

\* CT_Tbl.tr_lst / Table.rows: the w:tr children in document order
TblRows(tbl) == SelectSeq(tbl.children, IsRow)


RECURSIVE SumSeq(_)
SumSeq(ns) == IF ns = <<>> THEN 0 ELSE Head(ns) + SumSeq(Tail(ns))

(***************************************************************************)
(* PlaceholderEngine                                                       *)
(***************************************************************************)
\* All paragraphs the engine visits in one table: rows, cells, paragraphs.
TableParagraphs(tbl) ==
    Concat([r \in 1..Len(TblRows(tbl)) |->
        Concat([c \in 1..Len(TblRows(tbl)[r].cells) |-> TblRows(tbl)[r].cells[c]])])

\* Every paragraph the scanner reads: body, tables, headers, footers.
ScannedParagraphs(doc) ==
    { DocParagraphs(doc)[i] : i \in 1..Len(DocParagraphs(doc)) }
    \cup UNION { { TableParagraphs(DocTables(doc)[t])[i] :
                     i \in 1..Len(TableParagraphs(DocTables(doc)[t])) } :
                 t \in 1..Len(DocTables(doc)) }
    \cup UNION { { doc.sections[s].header[i] : i \in 1..Len(doc.sections[s].header) }
                 \cup { doc.sections[s].footer[i] :
                          i \in 1..Len(doc.sections[s].footer) } :
                 s \in 1..Len(doc.sections) }

\* para.text of every paragraph the scanner reads
ScannedTexts(doc) == { ParaText(p) : p \in ScannedParagraphs(doc) }

\* find_all_placeholders(): the set of names found
FindAllPlaceholders(doc) == UNION { PatternFindAll(t) : t \in ScannedTexts(doc) }

\* data.keys()
DataKeys(data) == { data[i].key : i \in 1..Len(data) }

\* (variant: every supplied key is listed as unused)
ValidateDataAllUnused(doc, data) ==
    [missing |-> FindAllPlaceholders(doc) \ DataKeys(data),
     unused  |-> DataKeys(data)]

\* validate_data(data)
ValidateData(doc, data) ==
    [missing |-> FindAllPlaceholders(doc) \ DataKeys(data),
     unused  |-> DataKeys(data) \ FindAllPlaceholders(doc)]

\* The loop `for key, value in data.items()` over one text: each key whose
\* token is in the text as it stands is replaced everywhere and counted once.
RECURSIVE ApplyKeys(_, _, _)
ApplyKeys(text, data, k) ==
    IF k > Len(data) THEN [text |-> text, count |-> 0]
    ELSE IF Contains(text, Tok(data[k].key))
         THEN LET r == ApplyKeys(StrReplace(text, Tok(data[k].key), data[k].value),
                                 data, k + 1)
              IN  [text |-> r.text, count |-> r.count + 1]
         ELSE ApplyKeys(text, data, k + 1)

\* A loop that rewrites the elements of a sequence and adds up a count:
\* the result of one element put in front of the result of the rest.
NoneDone == [item |-> <<>>, count |-> 0]
Push(r, rest) == [item |-> <<r.item>> \o rest.item, count |-> r.count + rest.count]
Pair(item, count) == [item |-> item, count |-> count]
SetRuns(para, r) == Pair([para EXCEPT !.runs = r.item], r.count)
SetText(para, a) == Pair(ParaSetText(para, a.text), a.count)
\* (variant: the assignment also resets the run's formatting)
SetRunTextPlain(run, a) ==
    Pair([run EXCEPT !.text = a.text, !.fmt = DefaultFmt], a.count)
SetRunText(run, a) == Pair([run EXCEPT !.text = a.text], a.count)
SetCells(child, r) == Pair([child EXCEPT !.cells = r.item], r.count)
SetChildren(tbl, r) == Pair([tbl EXCEPT !.children = r.item], r.count)
SetSection(h, f) == Pair([header |-> h.item, footer |-> f.item], h.count + f.count)

\* One iteration of the loop over para.runs in _replace_in_runs
ReplaceInRun(run, data) ==
    IF ~PatternSearch(run.text) THEN Pair(run, 0)
    ELSE SetRunText(run, ApplyKeys(run.text, data, 1))

RECURSIVE ReplaceRunsFrom(_, _, _)
ReplaceRunsFrom(runs, data, i) ==
    IF i > Len(runs) THEN NoneDone
    ELSE Push(ReplaceInRun(runs[i], data), ReplaceRunsFrom(runs, data, i + 1))

\* (variant: the tokens are looked for in the joined text of the runs and
\* the result is kept in the first run)
JoinedRuns(runs, text) ==
    [i \in 1..Len(runs) |-> [runs[i] EXCEPT !.text = IF i = 1 THEN text ELSE <<>>]]
ReplaceInRunsJoined(para, data) ==
    LET a == ApplyKeys(ParaText(para), data, 1)
    IN  Pair([para EXCEPT !.runs = JoinedRuns(para.runs, a.text)], a.count)

\* _replace_in_runs(para, data)
ReplaceInRuns(para, data) == SetRuns(para, ReplaceRunsFrom(para.runs, data, 1))

\* One iteration of the loop over paragraphs in _replace_in_paragraphs
ReplaceInParagraph(para, data, preserve) ==
    IF ~PatternSearch(ParaText(para)) THEN Pair(para, 0)
    ELSE IF preserve THEN ReplaceInRuns(para, data)
    ELSE SetText(para, ApplyKeys(ParaText(para), data, 1))

RECURSIVE ReplaceParagraphsFrom(_, _, _, _)
ReplaceParagraphsFrom(paras, data, preserve, i) ==
    IF i > Len(paras) THEN NoneDone
    ELSE Push(ReplaceInParagraph(paras[i], data, preserve),
              ReplaceParagraphsFrom(paras, data, preserve, i + 1))

\* _replace_in_paragraphs(paragraphs, data, preserve_format)
ReplaceInParagraphs(paras, data, preserve) ==
    ReplaceParagraphsFrom(paras, data, preserve, 1)

\* The loop over row.cells in _replace_in_table
RECURSIVE ReplaceCellsFrom(_, _, _, _)
ReplaceCellsFrom(cells, data, preserve, c) ==
    IF c > Len(cells) THEN NoneDone
    ELSE Push(ReplaceInParagraphs(cells[c], data, preserve),
              ReplaceCellsFrom(cells, data, preserve, c + 1))

\* The loop over table.rows in _replace_in_table (the other children of
\* w:tbl are not rows and are left alone)
RECURSIVE ReplaceRowsFrom(_, _, _, _)
ReplaceRowsFrom(children, data, preserve, i) ==
    IF i > Len(children) THEN NoneDone
    ELSE Push(IF IsRow(children[i])
              THEN SetCells(children[i],
                            ReplaceCellsFrom(children[i].cells, data, preserve, 1))
              ELSE Pair(children[i], 0),
              ReplaceRowsFrom(children, data, preserve, i + 1))

\* _replace_in_table(table, data, preserve_format)
ReplaceInTable(tbl, data, preserve) ==
    SetChildren(tbl, ReplaceRowsFrom(tbl.children, data, preserve, 1))

\* The body pass and the tables pass of replace_all over the body blocks
RECURSIVE ReplaceBlocksFrom(_, _, _, _)
ReplaceBlocksFrom(body, data, preserve, i) ==
    IF i > Len(body) THEN NoneDone
    ELSE Push(IF IsPara(body[i])
              THEN ReplaceInParagraph(body[i], data, preserve)
              ELSE ReplaceInTable(body[i], data, preserve),
              ReplaceBlocksFrom(body, data, preserve, i + 1))

\* The headers and footers pass of replace_all
RECURSIVE ReplaceSectionsFrom(_, _, _, _)
ReplaceSectionsFrom(sections, data, preserve, i) ==
    IF i > Len(sections) THEN NoneDone
    ELSE Push(SetSection(ReplaceInParagraphs(sections[i].header, data, preserve),
                         ReplaceInParagraphs(sections[i].footer, data, preserve)),
              ReplaceSectionsFrom(sections, data, preserve, i + 1))

Raised(doc, missing) ==
    [doc |-> doc, raised |-> "ValueError", reported |-> missing, ret |-> 0]
Returned(doc, bs, ss) ==
    [doc |-> [doc EXCEPT !.body = bs.item, !.sections = ss.item],
     raised |-> "none", reported |-> {}, ret |-> bs.count + ss.count]

\* Mutant: the missing names are checked after the passes have run.
ReplaceAllLateCheck(doc, data, strict, preserve) ==
    IF strict /\ ValidateData(doc, data).missing # {}
    THEN Raised(Returned(doc, ReplaceBlocksFrom(doc.body, data, preserve, 1),
                         ReplaceSectionsFrom(doc.sections, data, preserve, 1)).doc,
                ValidateData(doc, data).missing)
    ELSE Returned(doc, ReplaceBlocksFrom(doc.body, data, preserve, 1),
                  ReplaceSectionsFrom(doc.sections, data, preserve, 1))

\* replace_all(data, strict, preserve_format): the document and the value
\* returned, or the ValueError raised before anything is touched.
ReplaceAll(doc, data, strict, preserve) ==
    IF strict /\ ValidateData(doc, data).missing # {}
    THEN Raised(doc, ValidateData(doc, data).missing)
    ELSE Returned(doc, ReplaceBlocksFrom(doc.body, data, preserve, 1),
                  ReplaceSectionsFrom(doc.sections, data, preserve, 1))

(***************************************************************************)
(* Documents and mappings the text engine is run on                        *)
(***************************************************************************)
A == <<"a">>
B == <<"b">>
X == <<"x">>

\* Run texts of the body paragraph: plain text, single and repeated tokens,
\* two different tokens, braces around a token, a field token, tokens
\* split over two runs, and a run with a token and the start of another.
BodyRunTexts ==
    { <<X>>, <<Tok(A)>>, <<Tok(B)>>, <<Tok(A) \o Tok(A)>>, <<Tok(A) \o Tok(B)>>,
      <<OPEN \o Tok(A) \o CLOSE>>, <<FieldTok(A, B)>>, <<X \o Tok(A) \o X>>,
      <<OPEN \o A, CLOSE>>, <<<<"{">>, <<"{">> \o A \o CLOSE>>,
      <<Tok(A), Tok(B)>>, <<Tok(A), X>>, <<Tok(A), Tok(A)>>,
      <<Tok(A) \o OPEN \o B, CLOSE>> }

RunFmts == <<"bold", "italic">>

RunsOf(texts) == [i \in 1..Len(texts) |-> Run(texts[i], RunFmts[i])]

CellTexts == { X, Tok(A) }
HeaderTexts == { X, Tok(B) }
FooterTexts == { X, Tok(A) \o Tok(A) }

TextDocument(p, c, h, f) ==
    [body |-> << Para(1, DefaultStyle, RunsOf(p)),
                 Tbl(2, << TblChild("tblPr", 3, <<>>), TblChild("tblGrid", 4, <<>>),
                           TblChild("tr", 5, << << Para(6, DefaultStyle,
                                                        <<Run(c, "bold")>>) >> >>) >>) >>,
     sections |-> << [header |-> << Para(7, "Header", <<Run(h, "italic")>>) >>,
                      footer |-> << Para(8, "Footer", <<Run(f, "italic")>>) >>] >>,
     nextId |-> 9]

TextDocuments ==
    { TextDocument(p, c, h, f) :
        p \in BodyRunTexts, c \in CellTexts, h \in HeaderTexts, f \in FooterTexts }

ScalarKeys == { A, B }
ScalarValues == { X, Tok(B) }
Entry(k, v) == [key |-> k, value |-> v]

\* Mappings in insertion order, keys distinct
ScalarMappings ==
    { <<>> }
    \cup { <<Entry(k, v)>> : k \in ScalarKeys, v \in ScalarValues }
    \cup { m \in { <<Entry(k1, v1), Entry(k2, v2)>> :
                      k1 \in ScalarKeys, k2 \in ScalarKeys,
                      v1 \in ScalarValues, v2 \in ScalarValues } :
             m[1].key # m[2].key }

NoPackage == [bodyRels |-> <<>>, sections |-> <<>>, contentTypeWritable |-> TRUE]
NoCache == [headers |-> <<>>, footers |-> <<>>, body |-> <<>>]
EmptyDocument == [body |-> <<>>, sections |-> <<>>, nextId |-> 1]
NoCall == [name |-> "init", n |-> 0]

NoDisk == <<>>
NoProc == <<>>

Snapshot == [document |-> document, media |-> media, drawings |-> drawings,
             imageCache |-> imageCache, disk |-> disk, proc |-> proc]

InitText ==
    /\ document \in TextDocuments
    /\ package = NoPackage
    /\ media = <<>>
    /\ drawings = <<>>
    /\ imageCache = NoCache
    /\ disk = NoDisk
    /\ proc = NoProc
    /\ before = Snapshot
    /\ call = NoCall

ReplaceAllCall(n, data, strict, preserve, r) ==
    [name |-> "replace_all", n |-> n, data |-> data, strict |-> strict,
     preserve |-> preserve, raised |-> r.raised, reported |-> r.reported,
     ret |-> r.ret, doc |-> r.doc]

\* engine.replace_all(data, strict, preserve_format)
DoReplaceAll ==
    /\ call.n < MaxCalls
    /\ \E data \in ScalarMappings, strict \in BOOLEAN, preserve \in BOOLEAN :
         call' = ReplaceAllCall(call.n + 1, data, strict, preserve,
                                ReplaceAll(document, data, strict, preserve))
    /\ document' = call'.doc
    /\ before' = Snapshot
    /\ UNCHANGED <<package, disk, proc, media, drawings, imageCache>>

ReadCall(name, n, data, ret) == [name |-> name, n |-> n, data |-> data, ret |-> ret]

\* engine.find_all_placeholders()
DoFindAllPlaceholders ==
    /\ call.n < MaxCalls
    /\ call' = ReadCall("find_all_placeholders", call.n + 1, <<>>,
                        FindAllPlaceholders(document))
    /\ before' = Snapshot
    /\ UNCHANGED <<document, package, disk, proc, media, drawings, imageCache>>

\* validate_data reads data.keys() only: one value for every key
KeyMappings == { m \in ScalarMappings : \A i \in 1..Len(m) : m[i].value = X }

\* engine.validate_data(data)
DoValidateData ==
    /\ call.n < MaxCalls
    /\ \E data \in KeyMappings :
         call' = ReadCall("validate_data", call.n + 1, data, ValidateData(document, data))
    /\ before' = Snapshot
    /\ UNCHANGED <<document, package, disk, proc, media, drawings, imageCache>>

NextText == DoReplaceAll \/ DoFindAllPlaceholders \/ DoValidateData

SpecText == InitText /\ [][NextText]_vars


(***************************************************************************)
(* Properties of PlaceholderEngine.replace_all                             *)
(***************************************************************************)
Replaced == call.name = "replace_all"

\* Every run of every paragraph the engine visits
ScannedRuns(doc) ==
    UNION { { p.runs[i] : i \in 1..Len(p.runs) } : p \in ScannedParagraphs(doc) }

\* Number of characters of paragraph p before its r-th run
RunStart(p, r) == Len(Concat([i \in 1..(r - 1) |-> p.runs[i].text]))

\* Every token of the paragraph text lies inside one run
TokensWithinRuns(p) ==
    \A i \in 1..Len(ParaText(p)), n \in 1..Len(ParaText(p)) :
        MatchAt(ParaText(p), i, n) =>
            \E r \in 1..Len(p.runs) :
                /\ RunStart(p, r) < i
                /\ i + n + 3 <= RunStart(p, r) + Len(p.runs[r].text)

IsBrace(c) == c \in {"{", "}"}
BraceFree(t) == \A k \in 1..Len(t) : ~IsBrace(t[k])

\* Every brace of the text is part of a token
BracesInTokens(t) ==
    \A k \in 1..Len(t) :
        IsBrace(t[k]) =>
            \E i \in 1..Len(t), n \in 1..Len(t) :
                MatchAt(t, i, n) /\ i <= k /\ k <= i + n + 3

NoTokenLeft(doc) == \A t \in ScannedTexts(doc) : ~PatternSearch(t)

Covers(data, doc) == FindAllPlaceholders(doc) \subseteq DataKeys(data)

\* C1: replace_all with strict=True on a document with a placeholder name
\* that is not a key of the mapping raises ValueError reporting exactly the
\* missing names, and the document is unchanged when the error is raised.
C1_StrictAbortsUnmutated ==
    (Replaced /\ call.strict
        /\ ~Covers(call.data, before.document))
    => /\ call.raised = "ValueError"
       /\ call.reported = FindAllPlaceholders(before.document) \ DataKeys(call.data)
       /\ document = before.document

\* C1 witness: a strict call that raised although the mapping had a value
\* for a token of the document (a partial application was possible).
C1_Witness ==
    /\ Replaced /\ call.strict /\ call.raised = "ValueError"
    /\ DataKeys(call.data) \cap FindAllPlaceholders(before.document) # {}

RECURSIVE CountFrom(_, _, _)
CountFrom(t, s, i) ==
    IF i > Len(t) THEN 0
    ELSE IF IsPrefixAt(t, s, i) THEN 1 + CountFrom(t, s, i + Len(s))
    ELSE CountFrom(t, s, i + 1)

\* The token occurrences replaced in one text by the keys in order
RECURSIVE OccurrencesReplaced(_, _, _)
OccurrencesReplaced(text, data, k) ==
    IF k > Len(data) THEN 0
    ELSE CountFrom(text, Tok(data[k].key), 1)
         + OccurrencesReplaced(StrReplace(text, Tok(data[k].key), data[k].value),
                               data, k + 1)

\* The token occurrences replaced in the runs of one paragraph
RECURSIVE OccurrencesInRuns(_, _, _)
OccurrencesInRuns(runs, data, i) ==
    IF i > Len(runs) THEN 0
    ELSE (IF PatternSearch(runs[i].text)
          THEN OccurrencesReplaced(runs[i].text, data, 1) ELSE 0)
         + OccurrencesInRuns(runs, data, i + 1)

\* The sum over a finite set of paragraphs
RECURSIVE OccurrencesInAll(_, _)
OccurrencesInAll(ps, data) ==
    IF ps = {} THEN 0
    ELSE LET p == CHOOSE q \in ps : TRUE
         IN  OccurrencesInRuns(p.runs, data, 1) + OccurrencesInAll(ps \ {p}, data)

\* C3 as stated: the value returned by replace_all is the number of token
\* occurrences replaced, summed over every run of the body, the tables, the
\* headers and the footers (a run holding a token k times contributes k).
C3_CountsOccurrences ==
    (Replaced /\ call.raised = "none" /\ call.preserve)
    => call.ret = OccurrencesInAll(ScannedParagraphs(before.document), call.data)


(***************************************************************************)
(* Properties of the two substitution modes                                *)
(***************************************************************************)
\* The paragraph of doc that has the identity of p
ParaById(doc, p) == CHOOSE q \in ScannedParagraphs(doc) : q.id = p.id

\* The r-th run of p holds a character of the n characters from position i
Spans(p, r, i, n) ==
    /\ RunStart(p, r) + 1 <= i + n - 1
    /\ i <= RunStart(p, r) + Len(p.runs[r].text)

\* The r-th run of p holds all of the n characters from position i
Holds(p, r, i, n) ==
    /\ RunStart(p, r) + 1 <= i
    /\ i + n - 1 <= RunStart(p, r) + Len(p.runs[r].text)

\* The token of key occurs in the text of p at i, in no single run
SplitAt(p, key, i) ==
    /\ IsPrefixAt(ParaText(p), Tok(key), i)
    /\ \A r \in 1..Len(p.runs) : ~Holds(p, r, i, Len(Tok(key)))

\* The run text holds the complete token of a key of the mapping
HasMappedToken(text, data) == \E k \in DataKeys(data) : Contains(text, Tok(k))

PreserveCall == Replaced /\ call.raised = "none" /\ call.preserve

\* C14 as stated: in format-preserving mode, the runs over which the token
\* of a mapped name is split keep their texts, and a document whose mapped
\* tokens are all split has nothing counted.
C14_SplitTokenNotMatchedAsStated ==
    PreserveCall =>
        /\ \A p \in ScannedParagraphs(before.document), k \in DataKeys(call.data) :
              \A i \in 1..Len(ParaText(p)) :
                 SplitAt(p, k, i) =>
                    \A r \in 1..Len(p.runs) :
                       Spans(p, r, i, Len(Tok(k))) =>
                          ParaById(document, p).runs[r].text = p.runs[r].text
        /\ (\A r \in ScannedRuns(before.document) : ~HasMappedToken(r.text, call.data))
              => call.ret = 0

\* C14 amended: the same for the runs of the split token that hold no
\* complete token of a mapped name.
C14_SplitTokenNotMatched ==
    PreserveCall =>
        /\ \A p \in ScannedParagraphs(before.document), k \in DataKeys(call.data) :
              \A i \in 1..Len(ParaText(p)) :
                 SplitAt(p, k, i) =>
                    \A r \in 1..Len(p.runs) :
                       (Spans(p, r, i, Len(Tok(k)))
                          /\ ~HasMappedToken(p.runs[r].text, call.data))
                       => ParaById(document, p).runs[r].text = p.runs[r].text
        /\ (\A r \in ScannedRuns(before.document) : ~HasMappedToken(r.text, call.data))
              => call.ret = 0

\* C14 witness: a format-preserving call with a value for a name whose only
\* token is split over two runs; the runs are as before and 0 is returned.
C14_Witness ==
    /\ PreserveCall /\ call.ret = 0
    /\ \E p \in ScannedParagraphs(before.document), k \in DataKeys(call.data) :
          /\ \E i \in 1..Len(ParaText(p)) : SplitAt(p, k, i)
          /\ Len(p.runs) = 2
          /\ ParaById(document, p).runs = p.runs

\* C15: after replace_all with preserve_format=True every paragraph has the
\* same number of runs in the same order as before, each run keeps its
\* formatting record, and a run's text changes only if it contained a
\* complete token whose name is in the mapping.
C15_PreserveChangesOnlyText ==
    PreserveCall =>
        /\ { q.id : q \in ScannedParagraphs(document) }
              = { p.id : p \in ScannedParagraphs(before.document) }
        /\ \A p \in ScannedParagraphs(before.document) :
              /\ ParaById(document, p).style = p.style
              /\ Len(ParaById(document, p).runs) = Len(p.runs)
              /\ \A r \in 1..Len(p.runs) :
                    /\ ParaById(document, p).runs[r].fmt = p.runs[r].fmt
                    /\ (ParaById(document, p).runs[r].text # p.runs[r].text
                          => HasMappedToken(p.runs[r].text, call.data))

\* C15 witness: a format-preserving call that changed the text of one of
\* two differently formatted runs of a paragraph and left the other.
C15_Witness ==
    /\ PreserveCall
    /\ \E p \in ScannedParagraphs(before.document) :
          /\ Len(p.runs) = 2 /\ p.runs[1].fmt # p.runs[2].fmt
          /\ ParaById(document, p).runs[1].text # p.runs[1].text
          /\ ParaById(document, p).runs[2] = p.runs[2]
          /\ ParaById(document, p).runs[1].fmt = p.runs[1].fmt

\* C16 as stated: replace_all with a mapping none of whose keys is a name
\* of the document returns 0 and leaves every paragraph with the same runs,
\* texts and formatting, in either mode.
C16_AbsentKeysNoOp ==
    (Replaced /\ call.raised = "none"
        /\ DataKeys(call.data) \cap FindAllPlaceholders(before.document) = {})
    => /\ call.ret = 0
       /\ document = before.document

FieldBases(t) ==
    { k \in ScalarKeys : \E f \in ScalarKeys : Contains(t, FieldTok(k, f)) }

\* C18 as stated: find_all_placeholders includes the base name of every
\* nested field placeholder {{key.field}} of the document's text.
C18_FieldReportedUnderBase ==
    call.name = "find_all_placeholders" =>
        \A t \in ScannedTexts(before.document) : FieldBases(t) \subseteq call.ret


(***************************************************************************)
(* DynamicContentProcessor (generar_informe.py)                            *)
(***************************************************************************)
\* An entry of the data mapping whose value is a list: kind "strs" (a list
\* of strings) or "dicts" (a list of dicts, each a sequence of field/value
\* entries in insertion order).
ListEntry(key, kind, items) == [key |-> key, kind |-> kind, items |-> items]
Field(name, value) == [field |-> name, value |-> value]

\* repr of a dict with string values: {'f': 'X', 'g': 'a'}
RECURSIVE DictItemsRepr(_, _)
DictItemsRepr(d, i) ==
    IF i > Len(d) THEN <<>>
    ELSE (IF i > 1 THEN <<",", " ">> ELSE <<>>)
         \o <<"'">> \o d[i].field \o <<"'", ":", " ", "'">> \o d[i].value \o <<"'">>
         \o DictItemsRepr(d, i + 1)

\* str(item): a string is itself, a dict is its repr
PyStr(kind, item) ==
    IF kind = "strs" THEN item ELSE <<"{">> \o DictItemsRepr(item, 1) \o <<"}">>

\* f"(bullet) {text}": the bullet character U+2022 is written "*"
BULLET == "*"
Bullet(text) == <<BULLET, " ">> \o text

\* list(parent).index(element), 0-based
ChildIndex(children, id) ==
    (CHOOSE i \in 1..Len(children) : children[i].id = id) - 1

WithoutChild(children, id) == SelectSeq(children, LAMBDA c : c.id # id)

\* (variant: the element takes the place of the child at that index)
LxmlInsertOver(children, index, elem) ==
    IF index >= Len(children) THEN Append(WithoutChild(children, elem.id), elem)
    ELSE [WithoutChild(children, elem.id) EXCEPT ![index + 1] = elem]

\* lxml parent.insert(index, element) for 0 <= index: the element is put
\* before the child now at that index (or last when there is none); an
\* element that is already a child is moved.
LxmlInsert(children, index, elem) ==
    IF index >= Len(children) THEN Append(WithoutChild(children, elem.id), elem)
    ELSE IF children[index + 1].id = elem.id THEN children
    ELSE SubSeq(WithoutChild(children, elem.id), 1,
                ChildIndex(WithoutChild(children, elem.id), children[index + 1].id))
         \o <<elem>>
         \o SubSeq(WithoutChild(children, elem.id),
                   ChildIndex(WithoutChild(children, elem.id), children[index + 1].id) + 1,
                   Len(WithoutChild(children, elem.id)))

\* The paragraph or table proxy: the body child with that identity
Block(doc, id) == doc.body[ChildIndex(doc.body, id) + 1]
SetBlock(doc, blk) == [doc EXCEPT !.body[ChildIndex(doc.body, blk.id) + 1] = blk]

\* The loop over data.items() for one paragraph in expand_dynamic_lists:
\* one site per list-valued key whose token is in para.text
RECURSIVE SitesOfPara(_, _, _)
SitesOfPara(para, data, k) ==
    IF k > Len(data) THEN <<>>
    ELSE (IF Contains(ParaText(para), Tok(data[k].key))
          THEN << [id |-> para.id, key |-> data[k].key, kind |-> data[k].kind,
                   items |-> data[k].items] >>
          ELSE <<>>)
         \o SitesOfPara(para, data, k + 1)

\* paragraphs_to_process
RECURSIVE SitesFrom(_, _, _)
SitesFrom(paras, data, i) ==
    IF i > Len(paras) THEN <<>>
    ELSE SitesOfPara(paras[i], data, 1) \o SitesFrom(paras, data, i + 1)

ParagraphsToProcess(doc, data) == SitesFrom(DocParagraphs(doc), data, 1)

\* self.document.add_paragraph(a bullet text) with the style set: a new
\* paragraph, last in the body
CreateBulletParagraph(doc, text, style) ==
    [doc EXCEPT !.body = Append(@, Para(doc.nextId, style,
                                        <<Run(Bullet(text), DefaultFmt)>>)),
                !.nextId = @ + 1]

InsertNewParagraphNowhere(doc, index) == doc

\* parent.insert(para_index + 1, new_para._element) for the paragraph just
\* created
InsertNewParagraph(doc, index) ==
    [doc EXCEPT !.body = LxmlInsert(@, index, doc.body[Len(doc.body)])]

\* The loop `for item in items[1:]`, from the k-th item on
RECURSIVE InsertItems(_, _, _, _, _)
InsertItems(doc, paraIndex, site, style, k) ==
    IF k > Len(site.items) THEN doc
    ELSE InsertItems(
            InsertNewParagraph(
                CreateBulletParagraph(doc, PyStr(site.kind, site.items[k]), style),
                paraIndex + 1),
            paraIndex + 1, site, style, k + 1)

\* The template paragraph of a site with a non-empty list: cleared, then a
\* run with the first item
FirstItem(para, site) ==
    ParaAddRun(ParaClear(para), Bullet(PyStr(site.kind, site.items[1])))

\* (variant: the paragraph of an empty list is left as it is)
StripTokenNever(para, site) == para

\* The template paragraph of a site with an empty list
StripToken(para, site) ==
    ParaSetText(para, StrReplace(ParaText(para), Tok(site.key), <<>>))

\* One iteration of the loop over reversed(paragraphs_to_process)
ExpandSite(doc, site) ==
    IF site.items = <<>>
    THEN SetBlock(doc, StripToken(Block(doc, site.id), site))
    ELSE InsertItems(SetBlock(doc, FirstItem(Block(doc, site.id), site)),
                     ChildIndex(doc.body, site.id), site,
                     Block(doc, site.id).style, 2)

\* The loop over reversed(paragraphs_to_process), from the k-th site down
RECURSIVE ExpandSitesFrom(_, _, _)
ExpandSitesFrom(doc, sites, k) ==
    IF k < 1 THEN doc
    ELSE ExpandSitesFrom(ExpandSite(doc, sites[k]), sites, k - 1)

\* The value returned: the sites with a non-empty list
RECURSIVE ExpandedCount(_, _)
ExpandedCount(sites, k) ==
    IF k > Len(sites) THEN 0
    ELSE (IF sites[k].items = <<>> THEN 0 ELSE 1) + ExpandedCount(sites, k + 1)

ListsResult(doc, sites) ==
    [doc |-> ExpandSitesFrom(doc, sites, Len(sites)), ret |-> ExpandedCount(sites, 1)]

\* expand_dynamic_lists(data)
ExpandDynamicLists(doc, data) == ListsResult(doc, ParagraphsToProcess(doc, data))

\* isinstance(value, list) and len(value) > 0 and isinstance(value[0], dict)
IsRowsValue(e) == e.kind = "dicts" /\ e.items # <<>>

\* The test on one cell: the bare array token, or a token key.field for a
\* field of the first element
CellReferences(cell, e) ==
    \/ Contains(CellText(cell), Tok(e.key))
    \/ \E f \in 1..Len(e.items[1]) :
          Contains(CellText(cell), FieldTok(e.key, e.items[1][f].field))

RowReferences(row, e) ==
    IsRowsValue(e) /\ \E c \in 1..Len(row.cells) : CellReferences(row.cells[c], e)

\* The keys that set template_row_idx for this row; the loop over
\* data.items() is not left on a match, so the last of them is kept
MatchingKeys(row, data) == { k \in 1..Len(data) : RowReferences(row, data[k]) }
LastOf(ks) == CHOOSE k \in ks : \A j \in ks : j <= k

\* The rows of the table with a match; the loop over rows stops at the first
TemplateRows(tbl, data) ==
    { r \in 1..Len(TblRows(tbl)) : MatchingKeys(TblRows(tbl)[r], data) # {} }
FirstOf(rs) == CHOOSE r \in rs : \A j \in rs : r <= j

NoTemplate == [found |-> FALSE]
Template(rowIdx, e) ==
    [found |-> TRUE, rowIdx |-> rowIdx, key |-> e.key, rows |-> e.items]
TemplateAt(tbl, data, r) ==
    Template(r - 1, data[LastOf(MatchingKeys(TblRows(tbl)[r], data))])

\* template_row_idx (0-based), placeholder_key and template_row_data of a table
FindTemplate(tbl, data) ==
    IF TemplateRows(tbl, data) = {} THEN NoTemplate
    ELSE TemplateAt(tbl, data, FirstOf(TemplateRows(tbl, data)))

\* The loop over row_data.items() on one cell text, from the k-th field on
RECURSIVE FillText(_, _, _, _)
FillText(text, key, rowData, k) ==
    IF k > Len(rowData) THEN text
    ELSE FillText(StrReplace(StrReplace(text, FieldTok(key, rowData[k].field),
                                        rowData[k].value),
                             Tok(rowData[k].field), rowData[k].value),
                  key, rowData, k + 1)

\* The first paragraph of the cell is cleared and given one run
FillCell(cell, text) ==
    IF cell = <<>> THEN cell
    ELSE [cell EXCEPT ![1] = ParaAddRun(ParaClear(@), text)]

\* cell_formats: the cell texts of the template row
CellFormats(row) == [c \in 1..Len(row.cells) |-> CellText(row.cells[c])]

\* _fill_row_with_data(row, cell_formats, row_data, key)
FillRowWithData(row, cellFormats, rowData, key) ==
    [row EXCEPT !.cells =
        [c \in 1..Len(@) |->
            IF c <= Len(cellFormats)
            THEN FillCell(@[c], FillText(cellFormats[c], key, rowData, 1))
            ELSE @[c]]]

\* The position among the children of w:tbl of the row with 0-based row
\* index idx
RowChild(children, idx) ==
    CHOOSE i \in 1..Len(children) :
        /\ IsRow(children[i])
        /\ Cardinality({ j \in 1..i : IsRow(children[j]) }) = idx + 1

\* table.rows[idx] filled in place
FillRowAt(tbl, idx, cellFormats, rowData, key) ==
    [tbl EXCEPT !.children[RowChild(tbl.children, idx)] =
        FillRowWithData(@, cellFormats, rowData, key)]

\* deepcopy(tr): the same cells in elements of their own
ParasBefore(cells, c) == SumSeq([k \in 1..(c - 1) |-> Len(cells[k])])
CloneCells(cells, firstId) ==
    [c \in 1..Len(cells) |->
        [j \in 1..Len(cells[c]) |->
            [cells[c][j] EXCEPT !.id = firstId + ParasBefore(cells, c) + j - 1]]]
CloneRowShort(tr, firstId) ==
    TblChild("tr", firstId,
             CloneCells(SubSeq(tr.cells, 1, Len(tr.cells) - 1), firstId + 1))
CloneRow(tr, firstId) == TblChild("tr", firstId, CloneCells(tr.cells, firstId + 1))
ElementCount(tr) == 1 + ParasBefore(tr.cells, Len(tr.cells) + 1)

\* tbl.tr_lst[position - 1] if position > 0 else tbl.tr_lst[0]
SourceRow(tbl, position) ==
    IF position > 0 THEN TblRows(tbl)[position] ELSE TblRows(tbl)[1]

\* tbl.insert(position, new_tr): position counts every child of w:tbl
InsertRow(tbl, position, newTr) ==
    [tbl EXCEPT !.children = LxmlInsert(@, position, newTr)]

\* _add_table_row(table, position); the row returned is table.rows[position]
AddTableRow(doc, tblId, position) ==
    [SetBlock(doc, InsertRow(Block(doc, tblId), position,
                             CloneRow(SourceRow(Block(doc, tblId), position),
                                      doc.nextId)))
       EXCEPT !.nextId = @ + ElementCount(SourceRow(Block(doc, tblId), position))]

FillAt(doc, tblId, idx, cellFormats, rowData, key) ==
    SetBlock(doc, FillRowAt(Block(doc, tblId), idx, cellFormats, rowData, key))

\* The loop `for row_data in rows_data[1:]`, from the k-th element on
RECURSIVE AddRowsFrom(_, _, _, _, _, _)
AddRowsFrom(doc, tblId, tpl, cellFormats, rowsData, k) ==
    IF k > Len(rowsData) THEN doc
    ELSE AddRowsFrom(FillAt(AddTableRow(doc, tblId, tpl.rowIdx + 1), tblId,
                            tpl.rowIdx + 1, cellFormats, rowsData[k], tpl.key),
                     tblId, tpl, cellFormats, rowsData, k + 1)

\* _expand_table_rows(table, template_row_idx, rows_data, key)
ExpandTableRows(doc, tblId, tpl, cellFormats) ==
    IF tpl.rows = <<>> THEN doc
    ELSE AddRowsFrom(FillAt(doc, tblId, tpl.rowIdx, cellFormats, tpl.rows[1], tpl.key),
                     tblId, tpl, cellFormats, tpl.rows, 2)

ExpandTable(doc, tblId, tpl) ==
    IF tpl.found
    THEN ExpandTableRows(doc, tblId, tpl,
                         CellFormats(TblRows(Block(doc, tblId))[tpl.rowIdx + 1]))
    ELSE doc

\* The loop `for table in self.document.tables`, from the i-th table on;
\* tables are the tables of the document at the call
RECURSIVE ExpandTablesFrom(_, _, _, _)
ExpandTablesFrom(doc, tables, data, i) ==
    IF i > Len(tables) THEN doc
    ELSE ExpandTablesFrom(ExpandTable(doc, tables[i].id, FindTemplate(tables[i], data)),
                          tables, data, i + 1)

RECURSIVE TablesCount(_, _, _)
TablesCount(tables, data, i) ==
    IF i > Len(tables) THEN 0
    ELSE (IF FindTemplate(tables[i], data).found THEN 1 ELSE 0)
         + TablesCount(tables, data, i + 1)

\* expand_dynamic_tables(data)
ExpandDynamicTables(doc, data) ==
    [doc |-> ExpandTablesFrom(doc, DocTables(doc), data, 1),
     ret |-> TablesCount(DocTables(doc), data, 1)]

(***************************************************************************)
(* Templates and payloads for the dynamic content                          *)
(***************************************************************************)
L == <<"l">>
M == <<"m">>
R == <<"r">>
F == <<"f">>
G == <<"g">>
H == <<"H">>

MaxItems == 3
ItemChars == <<"X", "Y", "Z", "U", "V", "W">>
Items == [i \in 1..MaxItems |-> <<ItemChars[i]>>]

\* An array of n strings, and an array of n flat string-valued objects
Strs(n) == SubSeq(Items, 1, n)
Dicts(n) == [i \in 1..n |-> << Field(F, Items[i]), Field(G, A) >>]

\* The payloads: one or two array-valued names, in insertion order
DynMappings ==
    { <<ListEntry(L, "strs", Strs(n))>> : n \in 0..MaxItems }
    \cup { <<ListEntry(R, "dicts", Dicts(n))>> : n \in 0..MaxItems }
    \cup { <<ListEntry(L, "strs", Strs(2)), ListEntry(M, "strs", Strs(2))>>,
           <<ListEntry(M, "strs", Strs(1)), ListEntry(L, "strs", Strs(3))>>,
           <<ListEntry(L, "strs", Strs(2)), ListEntry(M, "strs", Strs(0))>>,
           <<ListEntry(L, "strs", Strs(0)), ListEntry(M, "strs", Strs(2))>>,
           <<ListEntry(R, "dicts", Dicts(2)), ListEntry(L, "strs", Strs(1))>> }

\* Run texts of the first body paragraph: plain text, the list token alone,
\* inside other text, next to the token of another list, split over two runs
FirstParaTexts ==
    { <<X>>, <<Tok(L)>>, <<X \o Tok(L) \o X>>, <<Tok(L) \o Tok(M)>>,
      <<OPEN \o L, CLOSE>> }

\* Run texts of the last body paragraph
LastParaTexts == { <<X>>, <<Tok(L)>>, <<Tok(R)>>, <<Tok(M)>> }

\* Cell texts of the rows of the table: header and template; template only;
\* header, template and a row below; no template; two template rows
\* (every row of a table has one cell for each grid column)
TableShapes ==
    { << <<H, H>>, <<FieldTok(R, F), Tok(G)>> >>,
      << <<FieldTok(R, F)>> >>,
      << <<H>>, <<FieldTok(R, F)>>, <<X>> >>,
      << <<H, H>> >>,
      << <<Tok(R), X>>, <<FieldTok(R, F), X>> >> }

\* The k-th row of the table: one paragraph in each cell
DynRow(k, texts) ==
    TblChild("tr", 2 + 3 * k,
             [c \in 1..Len(texts) |->
                 << Para(2 + 3 * k + c, DefaultStyle, <<Run(texts[c], "bold")>>) >>])

DynTable(shape) ==
    Tbl(2, << TblChild("tblPr", 3, <<>>), TblChild("tblGrid", 4, <<>>) >>
           \o [k \in 1..Len(shape) |-> DynRow(k, shape[k])])

DynDocument(p, shape, q) ==
    Doc(<< Para(1, "List", RunsOf(p)), DynTable(shape), Para(14, DefaultStyle, RunsOf(q)) >>,
        <<>>, 15)

\* A second table after the last paragraph: with a template row for the
\* same array, alone or between other rows
SecondTableShapes ==
    { << <<FieldTok(R, F)>> >>,
      << <<H>>, <<FieldTok(R, F)>>, <<X>> >> }

SecondRow(k, texts) ==
    TblChild("tr", 15 + 3 * k,
             [c \in 1..Len(texts) |->
                 << Para(15 + 3 * k + c, DefaultStyle, <<Run(texts[c], "bold")>>) >>])

SecondTable(shape) ==
    Tbl(15, << TblChild("tblPr", 16, <<>>), TblChild("tblGrid", 17, <<>>) >>
            \o [k \in 1..Len(shape) |-> SecondRow(k, shape[k])])

TwoTableDocument(shape, second) ==
    Doc(<< Para(1, "List", RunsOf(<<X>>)), DynTable(shape),
           Para(14, DefaultStyle, RunsOf(<<X>>)), SecondTable(second) >>,
        <<>>, 27)

DynDocuments ==
    { DynDocument(p, shape, q) :
        p \in FirstParaTexts, shape \in TableShapes, q \in LastParaTexts }
    \cup { TwoTableDocument(shape, second) :
              shape \in TableShapes, second \in SecondTableShapes }

InitDyn ==
    /\ document \in DynDocuments
    /\ package = NoPackage
    /\ media = <<>>
    /\ drawings = <<>>
    /\ imageCache = NoCache
    /\ disk = NoDisk
    /\ proc = NoProc
    /\ before = Snapshot
    /\ call = NoCall

DynCall(name, n, data, r) ==
    [name |-> name, n |-> n, data |-> data, ret |-> r.ret, doc |-> r.doc]

\* processor.expand_dynamic_lists(data)
DoExpandLists ==
    /\ call.n < MaxCalls
    /\ \E data \in DynMappings :
         call' = DynCall("expand_dynamic_lists", call.n + 1, data,
                         ExpandDynamicLists(document, data))
    /\ document' = call'.doc
    /\ before' = Snapshot
    /\ UNCHANGED <<package, disk, proc, media, drawings, imageCache>>

\* processor.expand_dynamic_tables(data)
DoExpandTables ==
    /\ call.n < MaxCalls
    /\ \E data \in DynMappings :
         call' = DynCall("expand_dynamic_tables", call.n + 1, data,
                         ExpandDynamicTables(document, data))
    /\ document' = call'.doc
    /\ before' = Snapshot
    /\ UNCHANGED <<package, disk, proc, media, drawings, imageCache>>

NextDyn == DoExpandLists \/ DoExpandTables

SpecDyn == InitDyn /\ [][NextDyn]_vars

(***************************************************************************)
(* Properties of the dynamic content expansion                             *)
(***************************************************************************)
IsListsCall == call.name = "expand_dynamic_lists"
IsTablesCall == call.name = "expand_dynamic_tables"

TablesBefore == DocTables(before.document)
RowsBefore(tb) == TblRows(tb)
RowsAfter(tb) == TblRows(Block(document, tb.id))
Created(el) == el.id >= before.document.nextId

\* The cell texts a row holds when it holds the k-th data element: the
\* template row's texts with the element's field tokens replaced
TemplateRow(tb, tpl) == RowsBefore(tb)[tpl.rowIdx + 1]
ElementCells(tb, tpl, k) ==
    [c \in 1..Len(TemplateRow(tb, tpl).cells) |->
        FillText(CellText(TemplateRow(tb, tpl).cells[c]), tpl.key, tpl.rows[k], 1)]

\* The tables of the document at the call that have a template row
Expanded(tb) == FindTemplate(tb, call.data).found

\* C4: after expand_dynamic_tables, for a template row at row index t and an
\* array of M >= 1 row objects, the rows at indices t, t+1, ..., t+M-1 hold
\* the data elements 0, 1, ..., M-1 in that order.
C4_RowsInArrayOrder ==
    IsTablesCall =>
        \A i \in 1..Len(TablesBefore) :
            Expanded(TablesBefore[i]) =>
                LET tb == TablesBefore[i]
                    tpl == FindTemplate(tb, call.data)
                IN \A k \in 1..Len(tpl.rows) :
                      /\ tpl.rowIdx + k <= Len(RowsAfter(tb))
                      /\ CellFormats(RowsAfter(tb)[tpl.rowIdx + k])
                            = ElementCells(tb, tpl, k)

\* C5: expanding a table that has a template row with M >= 1 data rows
\* yields a table with original_row_count - 1 + M rows, each with as many
\* cells as the template row.
C5_TableCardinality ==
    IsTablesCall =>
        \A i \in 1..Len(TablesBefore) :
            Expanded(TablesBefore[i]) =>
                LET tb == TablesBefore[i]
                    tpl == FindTemplate(tb, call.data)
                IN /\ Len(RowsAfter(tb)) = Len(RowsBefore(tb)) - 1 + Len(tpl.rows)
                   /\ \A r \in 1..Len(RowsAfter(tb)) :
                         Len(RowsAfter(tb)[r].cells) = Len(TemplateRow(tb, tpl).cells)

\* A table with a header row, a template row and a row below, expanded with
\* three data rows
C5_Witness ==
    /\ IsTablesCall
    /\ \E i \in 1..Len(TablesBefore) :
          /\ Expanded(TablesBefore[i])
          /\ FindTemplate(TablesBefore[i], call.data).rowIdx = 1
          /\ Len(FindTemplate(TablesBefore[i], call.data).rows) = MaxItems
          /\ Len(RowsBefore(TablesBefore[i])) = 3
          /\ \E r \in 1..Len(RowsAfter(TablesBefore[i])) :
                Created(RowsAfter(TablesBefore[i])[r])

\* The rows of the table that were there at the call, in their order now
OriginalRows(tb) == SelectSeq(RowsAfter(tb), LAMBDA r : ~Created(r))
RowIds(rows) == [r \in 1..Len(rows) |-> rows[r].id]

\* C6: table expansion touches only the template row and the rows it
\* inserts: a row above the template row keeps its row index and its cell
\* texts, a row below it keeps its cell texts, and the original rows keep
\* their relative order (header, first element, second element).
C6_OtherRowsUntouched ==
    IsTablesCall =>
        \A i \in 1..Len(TablesBefore) :
            Expanded(TablesBefore[i]) =>
                LET tb == TablesBefore[i]
                    tpl == FindTemplate(tb, call.data)
                IN /\ \A r \in 1..tpl.rowIdx :
                         /\ RowsAfter(tb)[r].id = RowsBefore(tb)[r].id
                         /\ CellFormats(RowsAfter(tb)[r]) = CellFormats(RowsBefore(tb)[r])
                   /\ RowIds(OriginalRows(tb)) = RowIds(RowsBefore(tb))
                   /\ \A r \in (tpl.rowIdx + 2)..Len(RowsBefore(tb)) :
                         CellFormats(OriginalRows(tb)[r]) = CellFormats(RowsBefore(tb)[r])

\* The sites of a list expansion: a body paragraph of the document at the
\* call and an entry of the payload with a non-empty array whose token is in
\* the paragraph's text
ParasBeforeCall == DocParagraphs(before.document)
IsSite(p, e) == e.items # <<>> /\ Contains(ParaText(p), Tok(e.key))
Rendering(e, i) == Bullet(PyStr(e.kind, e.items[i]))
PosNow(p) == ChildIndex(document.body, p.id) + 1

\* The site of p and e is N consecutive paragraphs: the template paragraph,
\* then N-1 created ones, the i-th with the bullet and the i-th element, and
\* no created paragraph right after them
SiteExpanded(p, e) ==
    /\ PosNow(p) + Len(e.items) - 1 <= Len(document.body)
    /\ \A i \in 1..Len(e.items) :
          /\ IsPara(document.body[PosNow(p) + i - 1])
          /\ ParaText(document.body[PosNow(p) + i - 1]) = Rendering(e, i)
          /\ i > 1 => Created(document.body[PosNow(p) + i - 1])
    /\ PosNow(p) + Len(e.items) <= Len(document.body)
          => ~Created(document.body[PosNow(p) + Len(e.items)])

\* No other name of the payload with a non-empty array has its token in p
OnlyList(p, k) ==
    \A j \in 1..Len(call.data) : j # k => ~IsSite(p, call.data[j])

\* C7 as stated: every body paragraph with the token of a list-valued name
\* whose array has N >= 1 elements becomes N consecutive bullet paragraphs
\* with the elements in array order.
C7_ListCardinalityAsStated ==
    IsListsCall =>
        \A i \in 1..Len(ParasBeforeCall), k \in 1..Len(call.data) :
            IsSite(ParasBeforeCall[i], call.data[k])
                => SiteExpanded(ParasBeforeCall[i], call.data[k])

\* C7: a body paragraph with the token of a list-valued name whose array has
\* N >= 1 elements, and with the token of no other name whose array is
\* non-empty, becomes N consecutive bullet paragraphs with the elements in
\* array order.
C7_ListCardinality ==
    IsListsCall =>
        \A i \in 1..Len(ParasBeforeCall), k \in 1..Len(call.data) :
            (IsSite(ParasBeforeCall[i], call.data[k]) /\ OnlyList(ParasBeforeCall[i], k))
                => SiteExpanded(ParasBeforeCall[i], call.data[k])

\* A paragraph that is not last in the body expanded with three elements,
\* while the payload names a second list
C7_Witness ==
    /\ IsListsCall
    /\ Len(call.data) = 2
    /\ \E i \in 1..Len(ParasBeforeCall), k \in 1..Len(call.data) :
          /\ IsSite(ParasBeforeCall[i], call.data[k])
          /\ OnlyList(ParasBeforeCall[i], k)
          /\ Len(call.data[k].items) = MaxItems
          /\ PosNow(ParasBeforeCall[i]) + MaxItems <= Len(document.body)

\* C8: list expansion replaces the token, not the paragraph: after an
\* expansion with a non-empty array the template paragraph's text is its
\* text at the call with the list token replaced by the bulleted first
\* element, the text around it kept.
C8_TokenReplacedInPlace ==
    IsListsCall =>
        \A i \in 1..Len(ParasBeforeCall), k \in 1..Len(call.data) :
            (IsSite(ParasBeforeCall[i], call.data[k]) /\ OnlyList(ParasBeforeCall[i], k))
                => ParaText(Block(document, ParasBeforeCall[i].id))
                      = StrReplace(ParaText(ParasBeforeCall[i]), Tok(call.data[k].key),
                                   Rendering(call.data[k], 1))

\* A body paragraph of the document at the call with the token of an entry
\* of the payload whose array is empty
IsEmptySite(p, e) == e.items = <<>> /\ Contains(ParaText(p), Tok(e.key))

\* The token of e is gone from p, which is no bullet paragraph and has no
\* created paragraph after it
SiteStripped(p, e) ==
    /\ ParaText(Block(document, p.id)) = StrReplace(ParaText(p), Tok(e.key), <<>>)
    /\ ~IsPrefixAt(ParaText(Block(document, p.id)), <<BULLET>>, 1)
    /\ PosNow(p) < Len(document.body) => ~Created(document.body[PosNow(p) + 1])

\* No array of the payload has an element
AllEmpty(data) == \A k \in 1..Len(data) : data[k].items = <<>>

\* No other name of the payload has its token in p
OnlyToken(p, k) ==
    \A j \in 1..Len(call.data) :
        j # k => ~Contains(ParaText(p), Tok(call.data[j].key))

\* C19 as stated: at a body paragraph with the token of a list-valued name
\* whose array is empty the token is stripped from the text, no paragraph
\* is inserted and no bullet paragraph exists; with empty arrays only, the
\* number of body blocks is unchanged.
C19_EmptyListStripsTokenAsStated ==
    IsListsCall =>
        /\ \A i \in 1..Len(ParasBeforeCall), k \in 1..Len(call.data) :
              IsEmptySite(ParasBeforeCall[i], call.data[k])
                 => SiteStripped(ParasBeforeCall[i], call.data[k])
        /\ AllEmpty(call.data) =>
              /\ Len(document.body) = Len(before.document.body)
              /\ call.ret = 0

\* C19 amended: the same for a paragraph that has the token of no other
\* name of the payload.
C19_EmptyListStripsToken ==
    IsListsCall =>
        /\ \A i \in 1..Len(ParasBeforeCall), k \in 1..Len(call.data) :
              (IsEmptySite(ParasBeforeCall[i], call.data[k])
                 /\ OnlyToken(ParasBeforeCall[i], k))
              => SiteStripped(ParasBeforeCall[i], call.data[k])
        /\ AllEmpty(call.data) =>
              /\ Len(document.body) = Len(before.document.body)
              /\ call.ret = 0

\* C19 witness: an empty array whose token stood between other text of a
\* paragraph, which now holds that text alone, while another list of the
\* payload was expanded elsewhere.
C19_Witness ==
    /\ IsListsCall /\ ~AllEmpty(call.data)
    /\ \E i \in 1..Len(ParasBeforeCall), k \in 1..Len(call.data) :
          /\ IsEmptySite(ParasBeforeCall[i], call.data[k])
          /\ OnlyToken(ParasBeforeCall[i], k)
          /\ ParaText(Block(document, ParasBeforeCall[i].id)) = X \o X
    /\ Len(document.body) > Len(before.document.body)

\* A template paragraph: a body paragraph at the call with the token of a
\* name of the payload
IsTemplate(b) ==
    \E i \in 1..Len(ParasBeforeCall), k \in 1..Len(call.data) :
        /\ ParasBeforeCall[i].id = b.id
        /\ Contains(ParaText(ParasBeforeCall[i]), Tok(call.data[k].key))

\* The body blocks that are neither template nor created paragraphs
OtherBlocks(body) == SelectSeq(body, LAMBDA b : ~Created(b) /\ ~IsTemplate(b))

\* The paragraphs a template paragraph gets: one for each element after the
\* first of each array whose token it has
RECURSIVE InsertedFor(_, _)
InsertedFor(p, k) ==
    IF k > Len(call.data) THEN 0
    ELSE (IF IsSite(p, call.data[k]) THEN Len(call.data[k].items) - 1 ELSE 0)
         + InsertedFor(p, k + 1)

\* The created paragraphs that follow position j of the body directly
RECURSIVE CreatedAfter(_)
CreatedAfter(j) ==
    IF j < Len(document.body) /\ Created(document.body[j + 1])
    THEN 1 + CreatedAfter(j + 1) ELSE 0

\* The created paragraph at j renders an element after the first of a list
\* of the template paragraph p
IsItemOf(j, p) ==
    \E k \in 1..Len(call.data) :
        /\ IsSite(p, call.data[k])
        /\ \E n \in 2..Len(call.data[k].items) :
              ParaText(document.body[j]) = Rendering(call.data[k], n)

\* C20: after a list expansion the body blocks that are neither template
\* nor inserted paragraphs are the same, in the same order, as at the
\* call; each paragraph of the document at the call is followed directly
\* by exactly the paragraphs inserted for its own lists, and each of them
\* renders an element of one of these lists.
C20_OtherContentInPlace ==
    IsListsCall =>
        /\ OtherBlocks(document.body) = OtherBlocks(before.document.body)
        /\ ~Created(document.body[1])
        /\ \A i \in 1..Len(before.document.body) :
              LET p == before.document.body[i]
              IN  /\ CreatedAfter(PosNow(p)) = (IF IsPara(p) THEN InsertedFor(p, 1) ELSE 0)
                  /\ \A j \in (PosNow(p) + 1)..(PosNow(p) + CreatedAfter(PosNow(p))) :
                        IsItemOf(j, p)

\* C20 witness: two template paragraphs with different lists, both with
\* inserted paragraphs, and a table between them that is as it was.
C20_Witness ==
    /\ IsListsCall
    /\ Len(call.data) = 2
    /\ \A k \in 1..2 : \E i \in 1..Len(ParasBeforeCall) :
          /\ IsSite(ParasBeforeCall[i], call.data[k])
          /\ OnlyToken(ParasBeforeCall[i], k)
          /\ CreatedAfter(PosNow(ParasBeforeCall[i])) = Len(call.data[k].items) - 1
          /\ Len(call.data[k].items) > 1
    /\ Len(OtherBlocks(document.body)) = 1

\* The row has the token of the array, or the start of a field token of it
HoldsArrayToken(row, key) ==
    \E c \in 1..Len(row.cells) :
        \/ Contains(CellText(row.cells[c]), Tok(key))
        \/ Contains(CellText(row.cells[c]), OPEN \o key \o <<".">>)

\* C21 as stated: after expand_dynamic_tables with an empty array for a
\* name, a row that held a token of that name is still in the table
\* without the token, and the table has no fewer rows.
C21_EmptyArrayClearsTemplate ==
    IsTablesCall =>
        \A i \in 1..Len(TablesBefore), k \in 1..Len(call.data) :
            call.data[k].items = <<>> =>
                /\ Len(RowsAfter(TablesBefore[i])) >= Len(RowsBefore(TablesBefore[i]))
                /\ \A r \in 1..Len(RowsBefore(TablesBefore[i])) :
                      HoldsArrayToken(RowsBefore(TablesBefore[i])[r], call.data[k].key)
                         => \E q \in 1..Len(RowsAfter(TablesBefore[i])) :
                               /\ RowsAfter(TablesBefore[i])[q].id
                                     = RowsBefore(TablesBefore[i])[r].id
                               /\ ~HoldsArrayToken(RowsAfter(TablesBefore[i])[q],
                                                   call.data[k].key)

\* C22 as stated: of several tables with a template row for the same
\* array name only the first in document order is expanded; the later
\* ones keep their rows and cell texts.
C22_OnlyFirstTableExpanded ==
    IsTablesCall =>
        \A i \in 1..Len(TablesBefore), j \in 1..Len(TablesBefore) :
            (i < j /\ Expanded(TablesBefore[i]) /\ Expanded(TablesBefore[j])
                /\ FindTemplate(TablesBefore[i], call.data).key
                      = FindTemplate(TablesBefore[j], call.data).key)
            => Block(document, TablesBefore[j].id) = TablesBefore[j]

(***************************************************************************)
(* ImageReplacer (src/core/image_replacer.py)                              *)
(***************************************************************************)
\* A relationship of a part: its id, whether 'image' is in its reltype, and
\* the media entry its target part is (0 when the target is no image part)
Rel(rid, isImage, target) == [rid |-> rid, isImage |-> isImage, target |-> target]

\* A w:drawing of a part: the rel id its a:blip embeds, whether it holds a
\* wp:inline (else a wp:anchor), and the cx, cy of its wp:extent
\* and the cx, cy of each a:ext inside it (one, with the size of the extent)
Ext(cx, cy) == [cx |-> cx, cy |-> cy]
Drawing(part, embed, inline, cx, cy) ==
    [part |-> part, embed |-> embed, inline |-> inline, cx |-> cx, cy |-> cy,
     exts |-> <<Ext(cx, cy)>>]

BodyPart == <<"body", 0>>
HeaderPart(sectionIdx) == <<"header", sectionIdx>>
FooterPart(sectionIdx) == <<"footer", sectionIdx>>

None == <<>>
Some(v) == <<v>>

\* image_rels: the (rel_id, rel) pairs of a part with 'image' in rel.reltype
ImageRels(rels) == SelectSeq(rels, LAMBDA r : r.isImage)

\* _find_drawing_by_rel_id: the first drawing of the part that embeds rel_id
DrawingsOf(ds, part, rid) == { d \in 1..Len(ds) : ds[d].part = part /\ ds[d].embed = rid }
FoundDrawing(ds, d) ==
    [width |-> Some(ds[d].cx), height |-> Some(ds[d].cy), is_inline |-> ds[d].inline,
     element |-> Some(d)]
NoDrawing == [width |-> None, height |-> None, is_inline |-> TRUE, element |-> None]
FindDrawingByRelId(ds, part, rid) ==
    IF DrawingsOf(ds, part, rid) = {} THEN NoDrawing
    ELSE FoundDrawing(ds, FirstOf(DrawingsOf(ds, part, rid)))

ImageInfo(rel, location, sectionIdx, index, info) ==
    [rel_id |-> rel.rid, target |-> rel.target, location |-> location,
     section_idx |-> sectionIdx, index |-> index, width_emu |-> info.width,
     height_emu |-> info.height, is_inline |-> info.is_inline,
     drawing_element |-> info.element]

\* (variant: the index counts the image rels of the part from 1)
ScanPartImagesFromOne(rels, ds, part, location, sectionIdx) ==
    [i \in 1..Len(ImageRels(rels)) |->
        ImageInfo(ImageRels(rels)[i], location, sectionIdx, i,
                  FindDrawingByRelId(ds, part, ImageRels(rels)[i].rid))]

\* _scan_part_images / _scan_body_images: one ImageInfo per image rel, index
\* counting the image rels of the part from 0
ScanPartImages(rels, ds, part, location, sectionIdx) ==
    [i \in 1..Len(ImageRels(rels)) |->
        ImageInfo(ImageRels(rels)[i], location, sectionIdx, i - 1,
                  FindDrawingByRelId(ds, part, ImageRels(rels)[i].rid))]

\* _scan_images
ScanImages(pkg, ds) ==
    [headers |-> Concat([k \in 1..Len(pkg.sections) |->
                    ScanPartImages(pkg.sections[k].headerRels, ds, HeaderPart(k - 1),
                                   "headers", k - 1)]),
     footers |-> Concat([k \in 1..Len(pkg.sections) |->
                    ScanPartImages(pkg.sections[k].footerRels, ds, FooterPart(k - 1),
                                   "footers", k - 1)]),
     body |-> ScanPartImages(pkg.bodyRels, ds, BodyPart, "body", 0)]

\* A path: its stem and its suffix; the files there are, with their bytes
PathOf(stem, suffix) == [stem |-> stem, suffix |-> suffix]
Files == { [path |-> PathOf("logo", ".PNG"), data |-> "new1"],
           [path |-> PathOf("scan", ".xyz"), data |-> "new2"] }
Exists(path) == \E f \in Files : f.path = path
ReadBytes(path) == (CHOOSE f \in Files : f.path = path).data

\* str.lower() of a suffix
Lower(suffix) ==
    CASE suffix = ".PNG" -> ".png"
      [] suffix = ".JPG" -> ".jpg"
      [] OTHER -> suffix

\* content_types of _update_content_type
ContentTypes ==
    (".png" :> "image/png") @@ (".jpg" :> "image/jpeg") @@ (".jpeg" :> "image/jpeg")
    @@ (".gif" :> "image/gif") @@ (".bmp" :> "image/bmp") @@ (".tiff" :> "image/tiff")
    @@ (".tif" :> "image/tiff")

\* How a call ends: it returns True, returns False, or an exception leaves it
Succeeded(m) == [media |-> m, ret |-> TRUE, raised |-> FALSE]
Refused(m) == [media |-> m, ret |-> FALSE, raised |-> FALSE]
Threw(m) == [media |-> m, ret |-> FALSE, raised |-> TRUE]

\* A Python list index: list[i] raises IndexError outside -n..n-1, and a
\* negative i counts from the end
InRange(i, n) == -n <= i /\ i < n
At(i, n) == IF i >= 0 THEN i + 1 ELSE n + i + 1

SetBlobOfAll(m, target, data) == [k \in 1..Len(m) |-> [m[k] EXCEPT !.blob = data]]

\* image_part._blob = image_data
SetBlob(m, target, data) == [m EXCEPT ![target].blob = data]

SetContentType(m, target, ctype) == [m EXCEPT ![target].ctype = ctype]

\* _update_content_type(image_part, new_image_path) after the blob is set:
\* for a known extension the content type is assigned, which the part either
\* takes or refuses with AttributeError
UpdateContentType(pkg, m, target, suffix) ==
    IF suffix \notin DOMAIN ContentTypes THEN Succeeded(m)
    ELSE IF pkg.contentTypeWritable
         THEN Succeeded(SetContentType(m, target, ContentTypes[suffix]))
         ELSE Threw(m)

\* The end of each replace_*: read the file, set the blob, update the type
WriteImage(pkg, m, target, path) ==
    UpdateContentType(pkg, SetBlob(m, target, ReadBytes(path)), target,
                      Lower(path.suffix))

\* The index check and image_rels[image_index]
ReplaceInRels(pkg, m, imageRels, imageIndex, path) ==
    IF imageIndex >= Len(imageRels) THEN Refused(m)
    ELSE IF ~InRange(imageIndex, Len(imageRels)) THEN Threw(m)
    ELSE WriteImage(pkg, m, imageRels[At(imageIndex, Len(imageRels))].target, path)

\* replace_header_image(section_idx, new_image_path, image_index)
ReplaceHeaderImage(pkg, m, sectionIdx, path, imageIndex) ==
    IF sectionIdx >= Len(pkg.sections) THEN Refused(m)
    ELSE IF ~Exists(path) THEN Refused(m)
    ELSE IF ~InRange(sectionIdx, Len(pkg.sections)) THEN Threw(m)
    ELSE ReplaceInRels(pkg, m,
            ImageRels(pkg.sections[At(sectionIdx, Len(pkg.sections))].headerRels),
            imageIndex, path)

\* replace_footer_image(section_idx, new_image_path, image_index)
ReplaceFooterImage(pkg, m, sectionIdx, path, imageIndex) ==
    IF sectionIdx >= Len(pkg.sections) THEN Refused(m)
    ELSE IF ~Exists(path) THEN Refused(m)
    ELSE IF ~InRange(sectionIdx, Len(pkg.sections)) THEN Threw(m)
    ELSE ReplaceInRels(pkg, m,
            ImageRels(pkg.sections[At(sectionIdx, Len(pkg.sections))].footerRels),
            imageIndex, path)

\* replace_body_image_by_index(image_index, new_image_path)
ReplaceBodyImageByIndex(pkg, m, imageIndex, path) ==
    IF ~Exists(path) THEN Refused(m)
    ELSE ReplaceInRels(pkg, m, ImageRels(pkg.bodyRels), imageIndex, path)

\* self.document.part.rels[rel_id]
RelsWithId(rels, rid) == SelectSeq(rels, LAMBDA r : r.rid = rid)

\* replace_body_image_by_rel_id(rel_id, new_image_path)
ReplaceBodyImageByRelId(pkg, m, rid, path) ==
    IF ~Exists(path) THEN Refused(m)
    ELSE IF RelsWithId(pkg.bodyRels, rid) = <<>> THEN Refused(m)
    ELSE IF ~RelsWithId(pkg.bodyRels, rid)[1].isImage THEN Refused(m)
    ELSE WriteImage(pkg, m, RelsWithId(pkg.bodyRels, rid)[1].target, path)

\* key.split('_'): the pieces between the underscores, from position i on,
\* piece being the characters read since the last underscore
RECURSIVE SplitFrom(_, _, _)
SplitFrom(key, i, piece) ==
    IF i > Len(key) THEN <<piece>>
    ELSE IF key[i] = "_" THEN <<piece>> \o SplitFrom(key, i + 1, <<>>)
    ELSE SplitFrom(key, i + 1, Append(piece, key[i]))

Split(key) == SplitFrom(key, 1, <<>>)

\* int(text): an optional sign and one or more decimal digits, else ValueError
DigitChars == <<"0", "1", "2", "3", "4", "5", "6", "7", "8", "9">>
IsDigit(c) == \E d \in 1..Len(DigitChars) : DigitChars[d] = c
DigitValue(c) == (CHOOSE d \in 1..Len(DigitChars) : DigitChars[d] = c) - 1
IsDigits(text) == text # <<>> /\ \A i \in 1..Len(text) : IsDigit(text[i])
IsSign(c) == c = "-" \/ c = "+"
IsInt(text) ==
    /\ text # <<>>
    /\ IsDigits(IF IsSign(text[1]) THEN Tail(text) ELSE text)

RECURSIVE DigitsValue(_, _)
DigitsValue(text, n) ==
    IF n = 0 THEN 0 ELSE 10 * DigitsValue(text, n - 1) + DigitValue(text[n])

IntOf(text) ==
    IF text[1] = "-" THEN 0 - DigitsValue(Tail(text), Len(text) - 1)
    ELSE IF text[1] = "+" THEN DigitsValue(Tail(text), Len(text) - 1)
    ELSE DigitsValue(text, Len(text))

HEADER == <<"h", "e", "a", "d", "e", "r">>
FOOTER == <<"f", "o", "o", "t", "e", "r">>
BODY == <<"b", "o", "d", "y">>

\* An entry of results: the value stored for the key, and the media then
Result(m, value) == [media |-> m, value |-> value]

\* results[key] = self.replace_...(...): the value returned, or False from
\* the except clause when the call raised
Stored(r) == Result(r.media, r.ret)

\* int(parts[2]) if len(parts) > 2 else 0, once parts[2] is known to parse
ImgIdx(parts) == IF Len(parts) > 2 THEN IntOf(parts[3]) ELSE 0

\* Whether parts[1] and parts[2] exist and parse where they are read
SectionKeyParses(parts) ==
    /\ Len(parts) >= 2
    /\ IsInt(parts[2])
    /\ Len(parts) > 2 => IsInt(parts[3])

\* The body of the loop of replace_images_batch for one key
ReplaceOne(pkg, m, parts, path) ==
    IF parts[1] = HEADER
    THEN IF SectionKeyParses(parts)
         THEN Stored(ReplaceHeaderImage(pkg, m, IntOf(parts[2]), path, ImgIdx(parts)))
         ELSE Result(m, FALSE)
    ELSE IF parts[1] = FOOTER
    THEN IF SectionKeyParses(parts)
         THEN Stored(ReplaceFooterImage(pkg, m, IntOf(parts[2]), path, ImgIdx(parts)))
         ELSE Result(m, FALSE)
    ELSE IF parts[1] = BODY
    THEN IF Len(parts) >= 2 /\ IsInt(parts[2])
         THEN Stored(ReplaceBodyImageByIndex(pkg, m, IntOf(parts[2]), path))
         ELSE Result(m, FALSE)
    ELSE Result(m, FALSE)

BatchResult(m, results) == [media |-> m, results |-> results]

RecordUnlessFailed(acc, key, one) ==
    BatchResult(one.media,
                IF one.value THEN Append(acc.results, [key |-> key, value |-> one.value])
                ELSE acc.results)

\* results[key] = ... for a key not stored before
Record(acc, key, one) ==
    BatchResult(one.media, Append(acc.results, [key |-> key, value |-> one.value]))

\* The loop over replacements.items(), from the k-th entry on
RECURSIVE BatchFrom(_, _, _, _)
BatchFrom(pkg, acc, replacements, k) ==
    IF k > Len(replacements) THEN acc
    ELSE BatchFrom(pkg,
                   Record(acc, replacements[k].key,
                          ReplaceOne(pkg, acc.media, Split(replacements[k].key),
                                     replacements[k].path)),
                   replacements, k + 1)

\* replace_images_batch(replacements)
ReplaceImagesBatch(pkg, m, replacements) ==
    BatchFrom(pkg, BatchResult(m, <<>>), replacements, 1)

\* location + 's' if location != 'body' else location
CacheKey(location) ==
    CASE location = "body" -> "body"
      [] location = "header" -> "headers"
      [] location = "footer" -> "footers"
      [] location = "headers" -> "headerss"
      [] OTHER -> "other"

\* self._image_cache.get(cache_key, [])
CachedImages(cache, location) ==
    IF CacheKey(location) \in DOMAIN cache THEN cache[CacheKey(location)] ELSE <<>>

\* if img.index == index: if location == 'body' or img.section_idx == section_idx
Addressed(img, location, index, sectionIdx) ==
    img.index = index /\ (location = "body" \/ img.section_idx = sectionIdx)

\* Truth value of an Optional[int]: None and 0 are false
Truthy(opt) == opt # None /\ opt[1] # 0

\* The cached images get_image_dimensions returns from
Measured(images, location, index, sectionIdx) ==
    { k \in 1..Len(images) :
        /\ Addressed(images[k], location, index, sectionIdx)
        /\ Truthy(images[k].width_emu) /\ Truthy(images[k].height_emu) }

SizeOf(img) == Some(<<img.width_emu[1], img.height_emu[1]>>)

\* get_image_dimensions(location, index, section_idx)
GetImageDimensions(cache, location, index, sectionIdx) ==
    IF Measured(CachedImages(cache, location), location, index, sectionIdx) = {}
    THEN None
    ELSE SizeOf(CachedImages(cache, location)[
            FirstOf(Measured(CachedImages(cache, location), location, index, sectionIdx))])

\* The cached images set_image_dimensions can update: addressed, and with a
\* drawing element (whose wp:inline or wp:anchor holds a wp:extent)
Resizable(images, location, index, sectionIdx) ==
    { k \in 1..Len(images) :
        /\ Addressed(images[k], location, index, sectionIdx)
        /\ images[k].drawing_element # None }

\* extent.set('cx', ...), extent.set('cy', ...) and the same on every a:ext
Resize(ds, d, w, h) ==
    [ds EXCEPT ![d].cx = w, ![d].cy = h,
               ![d].exts = [e \in 1..Len(@) |-> Ext(w, h)]]

ResizeFirst(ds, images, ks, w, h) ==
    [drawings |-> Resize(ds, images[FirstOf(ks)].drawing_element[1], w, h), ret |-> TRUE]

\* set_image_dimensions(location, index, width_emu, height_emu, section_idx)
SetImageDimensions(cache, ds, location, index, w, h, sectionIdx) ==
    IF Resizable(CachedImages(cache, location), location, index, sectionIdx) = {}
    THEN [drawings |-> ds, ret |-> FALSE]
    ELSE ResizeFirst(ds, CachedImages(cache, location),
                     Resizable(CachedImages(cache, location), location, index, sectionIdx),
                     w, h)

(***************************************************************************)
(* Packages with images, and the arguments of the replacements             *)
(***************************************************************************)
Section(headerRels, footerRels) == [headerRels |-> headerRels, footerRels |-> footerRels]
Package(bodyRels, sections, writable) ==
    [bodyRels |-> bodyRels, sections |-> sections, contentTypeWritable |-> writable]
MediaEntry(blob, ctype) == [blob |-> blob, ctype |-> ctype]

\* One section; an image in the header, one in the footer, two in the body
\* after a rel that is no image; the second body image is the header's
\* image part and has no drawing
OneSection(writable) ==
    [package |-> Package(<< Rel("rId1", FALSE, 0), Rel("rId2", TRUE, 3),
                            Rel("rId3", TRUE, 1) >>,
                         << Section(<<Rel("rId1", TRUE, 1)>>, <<Rel("rId1", TRUE, 2)>>) >>,
                         writable),
     media |-> << MediaEntry("old1", "image/png"), MediaEntry("old2", "image/jpeg"),
                  MediaEntry("old3", "image/gif") >>,
     drawings |-> << Drawing(HeaderPart(0), "rId1", TRUE, 100, 50),
                     Drawing(FooterPart(0), "rId1", FALSE, 80, 40),
                     Drawing(BodyPart, "rId2", TRUE, 200, 100) >>]

\* Two sections; the first without images, the second with two header
\* images and one footer image; no body image
TwoSections(writable) ==
    [package |-> Package(<< Rel("rId1", FALSE, 0) >>,
                         << Section(<<>>, <<>>),
                            Section(<< Rel("rId1", TRUE, 1), Rel("rId2", TRUE, 2) >>,
                                    << Rel("rId1", FALSE, 0), Rel("rId2", TRUE, 3) >>) >>,
                         writable),
     media |-> << MediaEntry("old1", "image/png"), MediaEntry("old2", "image/jpeg"),
                  MediaEntry("old3", "image/gif") >>,
     drawings |-> << Drawing(HeaderPart(1), "rId1", TRUE, 100, 50),
                     Drawing(HeaderPart(1), "rId2", FALSE, 80, 40),
                     Drawing(FooterPart(1), "rId2", TRUE, 60, 30) >>]

\* No image anywhere
NoImages(writable) ==
    [package |-> Package(<< Rel("rId1", FALSE, 0) >>, << Section(<<>>, <<>>) >>, writable),
     media |-> <<>>,
     drawings |-> <<>>]

Packages ==
    { OneSection(w) : w \in BOOLEAN } \cup { TwoSections(w) : w \in BOOLEAN }
    \cup { NoImages(w) : w \in BOOLEAN }

\* A file with a known extension in capitals, one with an unknown extension,
\* and a path where there is no file
Paths == { PathOf("logo", ".PNG"), PathOf("scan", ".xyz"), PathOf("gone", ".png") }

SectionIdxs == { -3, -1, 0, 1, 2 }
ImageIdxs == { -1, 0, 1, 2 }
RelIds == { "rId1", "rId2", "rId9" }

\* A key of the batch: its pieces joined by underscores
Key(pieces) == JoinWith(pieces, <<"_">>)
BatchKeys ==
    { Key(<<HEADER, <<"0">>, <<"0">>>>), Key(<<HEADER, <<"1">>>>),
      Key(<<HEADER, <<"1">>, <<"1">>>>), Key(<<FOOTER, <<"0">>, <<"0">>>>),
      Key(<<FOOTER, <<"-", "1">>, <<"0">>>>), Key(<<BODY, <<"0">>>>),
      Key(<<BODY, <<"1">>>>), Key(<<BODY, <<"9">>>>), Key(<<BODY, <<"x">>>>),
      BODY, Key(<<HEADER, <<>>, <<"0">>>>), Key(<<<<"l", "o", "g", "o">>, <<"0">>>>) }

Replacement(key, path) == [key |-> key, path |-> path]

\* The mappings of the batch, in insertion order: one key, or two keys of
\* which one or both fail or both succeed
PairKeys ==
    { Key(<<HEADER, <<"1">>>>), Key(<<BODY, <<"1">>>>), Key(<<BODY, <<"x">>>>),
      Key(<<<<"l", "o", "g", "o">>, <<"0">>>>) }
Replacements ==
    { <<>> }
    \cup { <<Replacement(k, p)>> : k \in BatchKeys, p \in Paths }
    \cup { r \in { <<Replacement(k1, p1), Replacement(k2, p2)>> :
                     k1 \in PairKeys, k2 \in PairKeys, p1 \in Paths,
                     p2 \in { PathOf("logo", ".PNG"), PathOf("scan", ".xyz") } } :
             r[1].key # r[2].key }

\* The state after ImageReplacer(document): the cache holds the scan
InitImg ==
    /\ document = EmptyDocument
    /\ \E p \in Packages :
          /\ package = p.package
          /\ media = p.media
          /\ drawings = p.drawings
          /\ imageCache = ScanImages(p.package, p.drawings)
    /\ disk = NoDisk
    /\ proc = NoProc
    /\ before = Snapshot
    /\ call = NoCall

ReplaceCall(name, n, args, path, r) ==
    [name |-> name, n |-> n, args |-> args, path |-> path, ret |-> r.ret,
     raised |-> r.raised, media |-> r.media]

\* replacer.replace_header_image(section_idx, new_image_path, image_index)
DoReplaceHeaderImage ==
    /\ call.n < MaxCalls
    /\ \E s \in SectionIdxs, path \in Paths, i \in ImageIdxs :
         call' = ReplaceCall("replace_header_image", call.n + 1, <<s, i>>, path,
                             ReplaceHeaderImage(package, media, s, path, i))
    /\ media' = call'.media
    /\ before' = Snapshot
    /\ UNCHANGED <<document, package, disk, proc, drawings, imageCache>>

\* replacer.replace_footer_image(section_idx, new_image_path, image_index)
DoReplaceFooterImage ==
    /\ call.n < MaxCalls
    /\ \E s \in SectionIdxs, path \in Paths, i \in ImageIdxs :
         call' = ReplaceCall("replace_footer_image", call.n + 1, <<s, i>>, path,
                             ReplaceFooterImage(package, media, s, path, i))
    /\ media' = call'.media
    /\ before' = Snapshot
    /\ UNCHANGED <<document, package, disk, proc, drawings, imageCache>>

\* replacer.replace_body_image_by_index(image_index, new_image_path)
DoReplaceBodyImageByIndex ==
    /\ call.n < MaxCalls
    /\ \E path \in Paths, i \in ImageIdxs :
         call' = ReplaceCall("replace_body_image_by_index", call.n + 1, <<i>>, path,
                             ReplaceBodyImageByIndex(package, media, i, path))
    /\ media' = call'.media
    /\ before' = Snapshot
    /\ UNCHANGED <<document, package, disk, proc, drawings, imageCache>>

\* replacer.replace_body_image_by_rel_id(rel_id, new_image_path)
DoReplaceBodyImageByRelId ==
    /\ call.n < MaxCalls
    /\ \E path \in Paths, rid \in RelIds :
         call' = ReplaceCall("replace_body_image_by_rel_id", call.n + 1, <<rid>>, path,
                             ReplaceBodyImageByRelId(package, media, rid, path))
    /\ media' = call'.media
    /\ before' = Snapshot
    /\ UNCHANGED <<document, package, disk, proc, drawings, imageCache>>

BatchCall(n, replacements, r) ==
    [name |-> "replace_images_batch", n |-> n, replacements |-> replacements,
     results |-> r.results, media |-> r.media]

\* replacer.replace_images_batch(replacements)
DoReplaceImagesBatch ==
    /\ call.n < MaxCalls
    /\ \E replacements \in Replacements :
         call' = BatchCall(call.n + 1, replacements,
                           ReplaceImagesBatch(package, media, replacements))
    /\ media' = call'.media
    /\ before' = Snapshot
    /\ UNCHANGED <<document, package, disk, proc, drawings, imageCache>>

\* ImageInfo.to_dict(): the fields without the drawing element
ToDict(img) ==
    [rel_id |-> img.rel_id, target |-> img.target, location |-> img.location,
     section_idx |-> img.section_idx, index |-> img.index,
     width_emu |-> img.width_emu, height_emu |-> img.height_emu,
     is_inline |-> img.is_inline]

\* get_all_images_info()
GetAllImagesInfo(cache) ==
    [headers |-> [i \in 1..Len(cache.headers) |-> ToDict(cache.headers[i])],
     footers |-> [i \in 1..Len(cache.footers) |-> ToDict(cache.footers[i])],
     body |-> [i \in 1..Len(cache.body) |-> ToDict(cache.body[i])]]

Summary(info, total) ==
    [total_headers |-> Len(info.headers), total_footers |-> Len(info.footers),
     total_body |-> Len(info.body), total |-> total, details |-> info]

\* (variant: the total leaves out the footers)
GetSummaryNoFooters(cache) ==
    Summary(GetAllImagesInfo(cache), Len(cache.headers) + Len(cache.body))

\* get_summary()
GetSummary(cache) ==
    Summary(GetAllImagesInfo(cache),
            Len(cache.headers) + Len(cache.footers) + Len(cache.body))

Locations == { "header", "footer", "body", "headers" }
Sizes == { <<300, 150>>, <<100, 50>> }
SectionArgs == { 0, 1 }

DimensionsCall(name, n, args, ret) ==
    [name |-> name, n |-> n, args |-> args, ret |-> ret, raised |-> FALSE]

SetDimensionsCall(n, args, r) ==
    [name |-> "set_image_dimensions", n |-> n, args |-> args, ret |-> r.ret,
     raised |-> FALSE, drawings |-> r.drawings]

\* replacer.set_image_dimensions(location, index, width_emu, height_emu, section_idx)
DoSetImageDimensions ==
    /\ call.n < MaxCalls
    /\ \E loc \in Locations, i \in ImageIdxs, size \in Sizes, s \in SectionArgs :
         call' = SetDimensionsCall(call.n + 1, <<loc, i, size[1], size[2], s>>,
                    SetImageDimensions(imageCache, drawings, loc, i, size[1], size[2], s))
    /\ drawings' = call'.drawings
    /\ before' = Snapshot
    /\ UNCHANGED <<document, package, disk, proc, media, imageCache>>

\* replacer.get_image_dimensions(location, index, section_idx)
DoGetImageDimensions ==
    /\ call.n < MaxCalls
    /\ \E loc \in Locations, i \in ImageIdxs, s \in SectionArgs :
         call' = DimensionsCall("get_image_dimensions", call.n + 1, <<loc, i, s>>,
                                GetImageDimensions(imageCache, loc, i, s))
    /\ before' = Snapshot
    /\ UNCHANGED <<document, package, disk, proc, media, drawings, imageCache>>

\* replacer.get_summary()
DoGetSummary ==
    /\ call.n < MaxCalls
    /\ call' = DimensionsCall("get_summary", call.n + 1, <<>>, GetSummary(imageCache))
    /\ before' = Snapshot
    /\ UNCHANGED <<document, package, disk, proc, media, drawings, imageCache>>

NextImg ==
    \/ DoGetSummary
    \/ DoReplaceHeaderImage
    \/ DoReplaceFooterImage
    \/ DoReplaceBodyImageByIndex
    \/ DoReplaceBodyImageByRelId
    \/ DoReplaceImagesBatch
    \/ DoSetImageDimensions
    \/ DoGetImageDimensions

SpecImg == InitImg /\ [][NextImg]_vars

(***************************************************************************)
(* Properties of the image replacement                                     *)
(***************************************************************************)
SingleReplacements ==
    { "replace_header_image", "replace_footer_image", "replace_body_image_by_index",
      "replace_body_image_by_rel_id" }

IsSuccessfulReplacement ==
    call.name \in SingleReplacements /\ ~call.raised /\ call.ret

\* The media entries that differ from what they were at the call
ChangedMedia == { k \in 1..Len(media) : media[k] # before.media[k] }

\* C9: a successful replace_header_image, replace_footer_image,
\* replace_body_image_by_index or replace_body_image_by_rel_id changes only
\* the blob and content type of one media entry, which gets the bytes of the
\* file; the drawings (extent, inline or anchor) and the cached geometry
\* are as before the call.
C9_MediaSwapPurity ==
    IsSuccessfulReplacement =>
        /\ drawings = before.drawings
        /\ imageCache = before.imageCache
        /\ Len(media) = Len(before.media)
        /\ Cardinality(ChangedMedia) <= 1
        /\ \A k \in ChangedMedia : media[k].blob = ReadBytes(call.path)

\* A successful header replacement of an image that has a drawing and a
\* cached geometry, in a package with other media entries
C9_Witness ==
    /\ IsSuccessfulReplacement
    /\ call.name = "replace_header_image"
    /\ Cardinality(ChangedMedia) = 1
    /\ Len(media) > 1
    /\ \E i \in 1..Len(imageCache.headers) :
          /\ imageCache.headers[i].target \in ChangedMedia
          /\ imageCache.headers[i].drawing_element # None
          /\ imageCache.headers[i].width_emu # None

\* The single-item replacement a key of the batch stands for returns True
\* (a key that stands for none, or whose replacement raises, does not)
PiecesOf(key) == Split(key)
NumberAt(pieces, i) == Len(pieces) >= i /\ IsInt(pieces[i])
IndexOr0(pieces, i) == IF Len(pieces) >= i THEN IntOf(pieces[i]) ELSE 0
TrueAlone(r) ==
    LET pieces == PiecesOf(r.key)
        wellFormed == NumberAt(pieces, 2) /\ (Len(pieces) > 2 => NumberAt(pieces, 3))
    IN CASE pieces[1] = HEADER /\ wellFormed ->
                ReplaceHeaderImage(package, before.media, IntOf(pieces[2]), r.path,
                                   IndexOr0(pieces, 3)).ret
         [] pieces[1] = FOOTER /\ wellFormed ->
                ReplaceFooterImage(package, before.media, IntOf(pieces[2]), r.path,
                                   IndexOr0(pieces, 3)).ret
         [] pieces[1] = BODY /\ NumberAt(pieces, 2) ->
                ReplaceBodyImageByIndex(package, before.media, IntOf(pieces[2]),
                                        r.path).ret
         [] OTHER -> FALSE

\* C10: replace_images_batch returns a result for exactly the keys of the
\* input mapping; each value is a boolean, the outcome of the single-item
\* replacement for that key, whatever the other keys are and whether they
\* fail.
C10_BatchPerKeyResults ==
    call.name = "replace_images_batch" =>
        /\ Len(call.results) = Len(call.replacements)
        /\ \A k \in 1..Len(call.replacements) :
              /\ call.results[k].key = call.replacements[k].key
              /\ call.results[k].value \in BOOLEAN
              /\ call.results[k].value = TrueAlone(call.replacements[k])

\* A batch of two keys where the first fails and the second succeeds
C10_Witness ==
    /\ call.name = "replace_images_batch"
    /\ Len(call.replacements) = 2
    /\ ~call.results[1].value
    /\ call.results[2].value
    /\ media # before.media

\* An index that denotes one of n things: 0..n-1
Denotes(i, n) == 0 <= i /\ i < n

\* The image rels of the header or footer the call's section index denotes
HeaderRelsAt(sectionIdx) == ImageRels(package.sections[sectionIdx + 1].headerRels)
FooterRelsAt(sectionIdx) == ImageRels(package.sections[sectionIdx + 1].footerRels)

\* The call is a single-item replacement whose section index or image index
\* denotes no section or no image
IndexUnresolved ==
    \/ /\ call.name = "replace_header_image"
       /\ \/ ~Denotes(call.args[1], Len(package.sections))
          \/ ~Denotes(call.args[2], Len(HeaderRelsAt(call.args[1])))
    \/ /\ call.name = "replace_footer_image"
       /\ \/ ~Denotes(call.args[1], Len(package.sections))
          \/ ~Denotes(call.args[2], Len(FooterRelsAt(call.args[1])))
    \/ /\ call.name = "replace_body_image_by_index"
       /\ ~Denotes(call.args[1], Len(ImageRels(package.bodyRels)))

\* C11: a single-item image replacement whose section index or image index
\* is outside 0..count-1 (negative values included) returns False without
\* raising and leaves every media blob and content type unchanged.
C11_UnresolvedIndexReturnsFalse ==
    IndexUnresolved => ~call.raised /\ ~call.ret /\ media = before.media

\* C12: a single-item image replacement with a file whose extension is not
\* one of the known image extensions returns False and changes neither the
\* blob nor the content type of a media entry.
C12_UnknownTypeFails ==
    ( /\ call.name \in SingleReplacements
      /\ Exists(call.path)
      /\ Lower(call.path.suffix) \notin DOMAIN ContentTypes )
        => ~call.ret /\ media = before.media

\* The cached image a set_image_dimensions call with these arguments
\* addresses holds the size (w, h), and so do its drawing's wp:extent and
\* every a:ext in it
AgreesOn(img, w, h) ==
    /\ img.width_emu = Some(w)
    /\ img.height_emu = Some(h)
    /\ img.drawing_element # None
    /\ drawings[img.drawing_element[1]].cx = w
    /\ drawings[img.drawing_element[1]].cy = h
    /\ \A e \in 1..Len(drawings[img.drawing_element[1]].exts) :
          drawings[img.drawing_element[1]].exts[e] = Ext(w, h)

\* C13: after a successful set_image_dimensions(location, index, w, h) the
\* wp:extent of the drawing, every a:ext inside it and the cached geometry
\* all hold (w, h), and get_image_dimensions(location, index) returns (w, h);
\* a call that returns False changes none of them.
C13_DimensionsAgree ==
    call.name = "set_image_dimensions" =>
        IF call.ret
        THEN /\ \E k \in 1..Len(CachedImages(imageCache, call.args[1])) :
                   /\ Addressed(CachedImages(imageCache, call.args[1])[k],
                                call.args[1], call.args[2], call.args[5])
                   /\ AgreesOn(CachedImages(imageCache, call.args[1])[k],
                               call.args[3], call.args[4])
             /\ GetImageDimensions(imageCache, call.args[1], call.args[2], call.args[5])
                   = Some(<<call.args[3], call.args[4]>>)
        ELSE drawings = before.drawings /\ imageCache = before.imageCache


IsArrayEntry(e) == "items" \in DOMAIN e
ArrayData(textData) == SelectSeq(textData, IsArrayEntry)
ScalarData(textData) == SelectSeq(textData, LAMBDA e : ~IsArrayEntry(e))

\* The passes of one run in program order, and the position after each
Passes == <<"load", "lists", "tables", "scalars", "images", "save">>
Rank(pass) == CHOOSE i \in 1..Len(Passes) : Passes[i] = pass
\* (variant: the scalar pass is put before the two expansions)
PassAfterScalarsFirst(pass) ==
    CASE pass = "load" -> "scalars"
      [] pass = "scalars" -> "lists"
      [] pass = "lists" -> "tables"
      [] pass = "tables" -> "images"
      [] pass = "images" -> "save"
      [] pass = "save" -> "done"
PassAfter(pass) == IF pass = "save" THEN "done" ELSE Passes[Rank(pass) + 1]

\* The run moves on from the pass at c.pc; ran tells whether the body of
\* the pass was executed
Advance(c, ran) ==
    [c EXCEPT !.pc = PassAfter(c.pc),
              !.log = IF ran THEN Append(@, c.pc) ELSE @]
Return(c, value) == [c EXCEPT !.pc = "done", !.ret = value]
Save(c, doc) == [Return(c, "True") EXCEPT !.saved = <<doc>>, !.log = Append(@, "save")]

GenCall(template, exists, textData, replacements) ==
    [name |-> "generate_report", n |-> 0, pc |-> "load", log |-> <<>>,
     template |-> template, exists |-> exists, textData |-> textData,
     replacements |-> replacements, saved |-> <<>>, ret |-> "none"]

\* text_data of the run: none; scalars only; arrays only; an array of row
\* objects and a scalar with the name of one of their fields; a scalar
\* between a list and an array of rows; an empty array and a scalar
GenPayloads ==
    { <<>>,
      <<Entry(G, X)>>,
      <<ListEntry(R, "dicts", Dicts(2))>>,
      <<ListEntry(R, "dicts", Dicts(2)), Entry(G, X)>>,
      <<ListEntry(L, "strs", Strs(2)), Entry(G, X), ListEntry(R, "dicts", Dicts(1))>>,
      <<ListEntry(R, "dicts", Dicts(0)), Entry(G, X)>> }

GenPackages == { OneSection(TRUE), NoImages(TRUE) }
GenReplacements ==
    { <<>>, <<Replacement(Key(<<HEADER, <<"0">>, <<"0">>>>), PathOf("logo", ".PNG"))>> }

InitGen ==
    /\ document = EmptyDocument
    /\ \E p \in GenPackages :
          /\ package = p.package
          /\ media = p.media
          /\ drawings = p.drawings
    /\ imageCache = NoCache
    /\ disk = NoDisk
    /\ proc = NoProc
    /\ before = Snapshot
    /\ \E template \in DynDocuments, exists \in BOOLEAN, textData \in GenPayloads,
          replacements \in GenReplacements :
          call = GenCall(template, exists, textData, replacements)

AtPass(pass) == call.name = "generate_report" /\ call.pc = pass

\* if not template_path.exists(): return False; doc = Document(template_path)
GenLoad ==
    /\ AtPass("load")
    /\ call' = IF call.exists THEN Advance(call, TRUE) ELSE Return(call, "False")
    /\ document' = IF call.exists THEN call.template ELSE document
    /\ before' = Snapshot
    /\ UNCHANGED <<package, disk, proc, media, drawings, imageCache>>

\* if text_data: if array_data: processor.expand_dynamic_lists(array_data)
GenLists ==
    /\ AtPass("lists")
    /\ call' = Advance(call, ArrayData(call.textData) # <<>>)
    /\ document' = IF ArrayData(call.textData) # <<>>
                   THEN ExpandDynamicLists(document, ArrayData(call.textData)).doc
                   ELSE document
    /\ before' = Snapshot
    /\ UNCHANGED <<package, disk, proc, media, drawings, imageCache>>

\* processor.expand_dynamic_tables(array_data)
GenTables ==
    /\ AtPass("tables")
    /\ call' = Advance(call, ArrayData(call.textData) # <<>>)
    /\ document' = IF ArrayData(call.textData) # <<>>
                   THEN ExpandDynamicTables(document, ArrayData(call.textData)).doc
                   ELSE document
    /\ before' = Snapshot
    /\ UNCHANGED <<package, disk, proc, media, drawings, imageCache>>

\* if scalar_data: engine.validate_data(scalar_data);
\* engine.replace_all(scalar_data, strict=False, preserve_format=True)
GenScalars ==
    /\ AtPass("scalars")
    /\ call' = Advance(call, ScalarData(call.textData) # <<>>)
    /\ document' = IF ScalarData(call.textData) # <<>>
                   THEN ReplaceAll(document, ScalarData(call.textData), FALSE, TRUE).doc
                   ELSE document
    /\ before' = Snapshot
    /\ UNCHANGED <<package, disk, proc, media, drawings, imageCache>>

\* if img_replacements: replacer = ImageReplacer(doc);
\* replacer.replace_images_batch(img_replacements)
GenImages ==
    /\ AtPass("images")
    /\ call' = Advance(call, call.replacements # <<>>)
    /\ media' = IF call.replacements # <<>>
                THEN ReplaceImagesBatch(package, media, call.replacements).media
                ELSE media
    /\ imageCache' = IF call.replacements # <<>>
                     THEN ScanImages(package, drawings) ELSE imageCache
    /\ before' = Snapshot
    /\ UNCHANGED <<document, package, disk, proc, drawings>>

\* doc.save(output_path); return True
GenSave ==
    /\ AtPass("save")
    /\ call' = Save(call, document)
    /\ before' = Snapshot
    /\ UNCHANGED <<document, package, disk, proc, media, drawings, imageCache>>

NextGen == GenLoad \/ GenLists \/ GenTables \/ GenScalars \/ GenImages \/ GenSave

SpecGen == InitGen /\ [][NextGen]_vars

\* The document after the two expansions of the run's array data
Expansion(template, arrays) ==
    ExpandDynamicTables(ExpandDynamicLists(template, arrays).doc, arrays).doc

\* The rows of the tables of doc that are a template row of the run (by
\* identity) or were created since the template was loaded
ProducedRows(doc, template, arrays) ==
    UNION { { r \in { TblRows(Block(doc, tb.id))[i] :
                        i \in 1..Len(TblRows(Block(doc, tb.id))) } :
                 \/ r.id >= template.nextId
                 \/ r.id = TblRows(tb)[FindTemplate(tb, arrays).rowIdx + 1].id } :
            tb \in { t \in { DocTables(template)[i] : i \in 1..Len(DocTables(template)) } :
                       FindTemplate(t, arrays).found } }

\* The row holds a field token of an element of one of the arrays
HoldsFieldToken(row, arrays) ==
    \E k \in 1..Len(arrays) :
        /\ IsRowsValue(arrays[k])
        /\ \E f \in 1..Len(arrays[k].items[1]), c \in 1..Len(row.cells) :
              Contains(CellText(row.cells[c]),
                       FieldTok(arrays[k].key, arrays[k].items[1][f].field))

\* C23: in every run of generate_report the passes that run do so in the
\* order lists, tables, scalars, images, save; the scalar pass starts on
\* the document the two expansions of all array data have produced, in
\* which no template row or row made from it holds a field token, and it
\* changes none of these rows.
C23_PassOrder ==
    call.name = "generate_report" =>
        /\ \A i \in 1..Len(call.log), j \in 1..Len(call.log) :
              i < j => Rank(call.log[i]) < Rank(call.log[j])
        /\ (call.pc = "images" /\ call.log # <<>>
               /\ call.log[Len(call.log)] = "scalars") =>
              /\ before.document
                    = Expansion(call.template, ArrayData(call.textData))
              /\ \A r \in ProducedRows(before.document, call.template,
                                        ArrayData(call.textData)) :
                    /\ ~HoldsFieldToken(r, ArrayData(call.textData))
                    /\ r \in ProducedRows(document, call.template,
                                          ArrayData(call.textData))
        /\ call.saved # <<>> => call.saved[1] = document

\* C23 witness: a run with array and scalar data and an image replacement
\* has saved after all five passes, its table expanded to two rows from a
\* template row that held a field token and the token of a scalar name.
C23_Witness ==
    /\ call.name = "generate_report" /\ call.pc = "done"
    /\ call.log = Passes
    /\ \E k \in 1..Len(call.textData) : call.textData[k].key = G
    /\ \E tb \in { DocTables(call.template)[i] : i \in 1..Len(DocTables(call.template)) } :
          /\ FindTemplate(tb, ArrayData(call.textData)).found
          /\ \E r \in 1..Len(TblRows(tb)) :
                \E c \in 1..Len(TblRows(tb)[r].cells) :
                    Contains(CellText(TblRows(tb)[r].cells[c]), Tok(G))
          /\ Len(TblRows(Block(document, tb.id))) > Len(TblRows(tb))


(***************************************************************************)
(* DocumentProcessor (src/core/document_processor.py)                      *)
(***************************************************************************)
\* Number of operations in one life of a processor
MaxOps == 4

MAX_FILE_SIZE == 20 * 1024 * 1024

\* A path of the file system: no file, or a file with its size, whether
\* zipfile.is_zipfile accepts it, and the document python-docx reads from
\* it (None when Document(path) raises)
Missing == [exists |-> FALSE, size |-> 0, zip |-> FALSE, doc |-> None]
DiskFile(size, zip, doc) == [exists |-> TRUE, size |-> size, zip |-> zip, doc |-> doc]

\* The document of a processor: what the operations of the class read
Docx(title, paragraphs) == [title |-> title, paragraphs |-> paragraphs]

INPUT == "in.docx"
OUTPUT == "out/out.docx"

\* (variant: the container test is left out)
ValidateFileNoZip(d, path) ==
    IF ~d[path].exists THEN "FileNotFoundError"
    ELSE IF d[path].size > MAX_FILE_SIZE THEN "ValueError"
    ELSE "none"

\* _validate_file(): the exception raised, or "none"
ValidateFile(d, path) ==
    IF ~d[path].exists THEN "FileNotFoundError"
    ELSE IF d[path].size > MAX_FILE_SIZE THEN "ValueError"
    ELSE IF ~d[path].zip THEN "ValueError"
    ELSE "none"

Processor(path, doc) == [file_path |-> path, document |-> doc, backup_path |-> None]

\* The outcome of an operation: the processor and the files after it, the
\* exception raised and the value returned
Outcome(p, d, raised, ret) == [proc |-> p, disk |-> d, raised |-> raised, ret |-> ret]

\* DocumentProcessor(file_path): file_path is set, the file validated, then
\* document and _backup_path set to None; no object when validation raises
Construct(d, path) ==
    IF ValidateFile(d, path) = "none"
    THEN Outcome(Processor(path, None), d, "none", None)
    ELSE Outcome(NoProc, d, ValidateFile(d, path), None)

\* load(): Document(self.file_path), the exception raised again
Load(p, d) ==
    IF d[p.file_path].exists /\ d[p.file_path].doc # None
    THEN Outcome([p EXCEPT !.document = d[p.file_path].doc], d, "none", Some("self"))
    ELSE Outcome(p, d, "PackageNotFoundError", None)

\* The test `if self.document is None: raise RuntimeError` before a result
Guarded(p, d, result) ==
    IF p.document = None THEN Outcome(p, d, "RuntimeError", None) ELSE result

\* The file document.save(path) writes
Written(p) == DiskFile(1024, TRUE, p.document)

\* (variant: the file is written before the document is tested)
ProcSaveUnguarded(p, d, output) ==
    IF p.document = None
    THEN Outcome(p, [d EXCEPT ![output] = DiskFile(0, FALSE, None)], "RuntimeError", None)
    ELSE Outcome(p, [d EXCEPT ![output] = Written(p)], "none", Some(output))

\* save(output_path), output_path already resolved against file_path
ProcSave(p, d, output) ==
    Guarded(p, d, Outcome(p, [d EXCEPT ![output] = Written(p)], "none", Some(output)))

\* get_sections, get_core_properties, get_statistics, extract_text
Read(p, d, value) == Guarded(p, d, Outcome(p, d, "none", Some(value)))

\* update_core_properties({'title': title})
UpdateCoreProperties(p, d, title) ==
    Guarded(p, d, Outcome([p EXCEPT !.document[1].title = title], d, "none", None))

ProcFiles ==
    { Missing,
      DiskFile(1024, TRUE, Some(Docx("t", 2))),
      DiskFile(MAX_FILE_SIZE, TRUE, Some(Docx("t", 2))),
      DiskFile(MAX_FILE_SIZE + 1, TRUE, Some(Docx("t", 2))),
      DiskFile(MAX_FILE_SIZE + 1, FALSE, None),
      DiskFile(1024, FALSE, None),
      DiskFile(1024, TRUE, None) }

InitProc ==
    /\ document = EmptyDocument
    /\ package = NoPackage
    /\ media = <<>>
    /\ drawings = <<>>
    /\ imageCache = NoCache
    /\ \E f \in ProcFiles : disk = (INPUT :> f) @@ (OUTPUT :> Missing)
    /\ proc = NoProc
    /\ before = Snapshot
    /\ call = [name |-> "init", n |-> 0, loaded |-> FALSE]

\* The record of an operation; loaded tells whether a load() has returned
ProcCall(name, n, loaded, r) ==
    [name |-> name, n |-> n, raised |-> r.raised, ret |-> r.ret,
     proc |-> r.proc, disk |-> r.disk,
     loaded |-> loaded \/ (name = "load" /\ r.raised = "none")]

Frame == UNCHANGED <<document, package, media, drawings, imageCache>>

\* processor = DocumentProcessor(INPUT)
DoConstruct ==
    /\ call.n < MaxOps /\ proc = NoProc
    /\ call' = ProcCall("DocumentProcessor", call.n + 1, FALSE, Construct(disk, INPUT))
    /\ proc' = call'.proc /\ disk' = call'.disk
    /\ before' = Snapshot /\ Frame

\* processor.load()
DoLoad ==
    /\ call.n < MaxOps /\ proc # NoProc
    /\ call' = ProcCall("load", call.n + 1, call.loaded, Load(proc, disk))
    /\ proc' = call'.proc /\ disk' = call'.disk
    /\ before' = Snapshot /\ Frame

\* processor.save() / processor.save(OUTPUT)
DoSave ==
    /\ call.n < MaxOps /\ proc # NoProc
    /\ \E output \in { proc.file_path, OUTPUT } :
         call' = ProcCall("save", call.n + 1, call.loaded, ProcSave(proc, disk, output))
    /\ proc' = call'.proc /\ disk' = call'.disk
    /\ before' = Snapshot /\ Frame

\* processor.get_sections()
DoGetSections ==
    /\ call.n < MaxOps /\ proc # NoProc
    /\ call' = ProcCall("get_sections", call.n + 1, call.loaded,
                        Read(proc, disk, "sections"))
    /\ proc' = call'.proc /\ disk' = call'.disk
    /\ before' = Snapshot /\ Frame

\* processor.get_core_properties()
DoGetCoreProperties ==
    /\ call.n < MaxOps /\ proc # NoProc
    /\ call' = ProcCall("get_core_properties", call.n + 1, call.loaded,
                        Read(proc, disk, "properties"))
    /\ proc' = call'.proc /\ disk' = call'.disk
    /\ before' = Snapshot /\ Frame

\* processor.update_core_properties({'title': 'u'})
DoUpdateCoreProperties ==
    /\ call.n < MaxOps /\ proc # NoProc
    /\ call' = ProcCall("update_core_properties", call.n + 1, call.loaded,
                        UpdateCoreProperties(proc, disk, "u"))
    /\ proc' = call'.proc /\ disk' = call'.disk
    /\ before' = Snapshot /\ Frame

\* processor.get_statistics()
DoGetStatistics ==
    /\ call.n < MaxOps /\ proc # NoProc
    /\ call' = ProcCall("get_statistics", call.n + 1, call.loaded,
                        Read(proc, disk, "statistics"))
    /\ proc' = call'.proc /\ disk' = call'.disk
    /\ before' = Snapshot /\ Frame

\* processor.extract_text()
DoExtractText ==
    /\ call.n < MaxOps /\ proc # NoProc
    /\ call' = ProcCall("extract_text", call.n + 1, call.loaded,
                        Read(proc, disk, "text"))
    /\ proc' = call'.proc /\ disk' = call'.disk
    /\ before' = Snapshot /\ Frame

NextProc ==
    \/ DoConstruct \/ DoLoad \/ DoSave \/ DoGetSections \/ DoGetCoreProperties
    \/ DoUpdateCoreProperties \/ DoGetStatistics \/ DoExtractText

SpecProc == InitProc /\ [][NextProc]_vars

\* C25: constructing a DocumentProcessor for a path with no file raises
\* FileNotFoundError, for a file larger than MAX_FILE_SIZE or one that is
\* no zip container ValueError, and then there is no processor; a
\* processor that exists has no document or the whole document of a file.
C25_RejectEarly ==
    /\ call.name = "DocumentProcessor" =>
          /\ ~before.disk[INPUT].exists
                => call.raised = "FileNotFoundError" /\ proc = NoProc
          /\ (before.disk[INPUT].exists /\ before.disk[INPUT].size > MAX_FILE_SIZE)
                => call.raised = "ValueError" /\ proc = NoProc
          /\ (before.disk[INPUT].exists /\ ~before.disk[INPUT].zip)
                => call.raised = "ValueError" /\ proc = NoProc
          /\ call.raised = "none" => proc # NoProc /\ proc.document = None
          /\ disk = before.disk
    /\ proc # NoProc =>
          /\ disk[INPUT].exists /\ disk[INPUT].zip /\ disk[INPUT].size <= MAX_FILE_SIZE
          /\ proc.document # None => call.loaded

\* C25 witness: a zip container of one byte more than MAX_FILE_SIZE was
\* refused with ValueError, and no processor exists.
C25_Witness ==
    /\ call.name = "DocumentProcessor" /\ call.raised = "ValueError"
    /\ disk[INPUT].size = MAX_FILE_SIZE + 1 /\ disk[INPUT].zip
    /\ proc = NoProc

GuardedOps ==
    { "save", "get_sections", "get_core_properties", "update_core_properties",
      "get_statistics", "extract_text" }

\* C27: save, get_sections, get_core_properties, update_core_properties,
\* get_statistics and extract_text return only if a load() has returned
\* earlier; before that each raises RuntimeError and the files and the
\* processor are as they were.
C27_LoadFirst ==
    call.name \in GuardedOps =>
        /\ call.raised = "none" => call.loaded /\ before.proc.document # None
        /\ ~call.loaded =>
              /\ call.raised = "RuntimeError"
              /\ disk = before.disk
              /\ proc = before.proc

\* C27 witness: a save that raised RuntimeError after a load that had
\* failed, with no file written.
C27_Witness ==
    /\ call.name = "save" /\ call.raised = "RuntimeError" /\ call.n = 3
    /\ disk[INPUT].doc = None /\ ~disk[OUTPUT].exists


(***************************************************************************)
(* batch_process (src/api/rest_server.py): process_single on the pool      *)
(***************************************************************************)
\* Largest value datetime.now().timestamp() takes in the model
MaxTick == 1

\* TEMP_DIR / f"{prefix}_{stamp}_{filename}"
BatchPath(prefix, stamp, filename) ==
    [prefix |-> prefix, stamp |-> stamp, filename |-> filename]

FileNames == { "a.docx", "b.docx" }

BatchPaths ==
    { BatchPath(p, t, f) : p \in { "batch", "batch_out" }, t \in 0..MaxTick, f \in FileNames }

\* An uploaded file: (file.filename, file.file.read())
Upload(filename, content) == [filename |-> filename, content |-> content]

\* Contents of an upload: what a file holding these bytes is on disk
FirstContents == { DiskFile(1024, TRUE, Some(Docx("t", 2))), DiskFile(1024, FALSE, None) }
SecondContents == { DiskFile(1024, TRUE, Some(Docx("u", 3))), DiskFile(1024, FALSE, None) }

\* The requests: two files, with equal or different filenames
Batches ==
    { <<Upload("a.docx", c1), Upload(f2, c2)>> :
        c1 \in FirstContents, f2 \in FileNames, c2 \in SecondContents }

\* One call of process_single(file_data) on a thread of WORKER_POOL
Worker(file_data) ==
    [filename |-> file_data.filename, content |-> file_data.content, pc |-> "temp_path",
     temp_path |-> None, output_path |-> None, processor |-> NoProc,
     result |-> None, raised |-> "none"]

\* The dict process_single returns
WorkerResult(filename, status) == [filename |-> filename, status |-> status]

\* datetime.now().timestamp(): the clock has not moved since the last
\* reading, or it has
Now(clock) == { t \in { clock, clock + 1 } : t <= MaxTick }

InitBatch ==
    /\ document = EmptyDocument
    /\ package = NoPackage
    /\ media = <<>>
    /\ drawings = <<>>
    /\ imageCache = NoCache
    /\ disk = [p \in BatchPaths |-> Missing]
    /\ \E b \in Batches : proc = [clock |-> 0, workers |-> <<Worker(b[1]), Worker(b[2])>>]
    /\ before = Snapshot
    /\ call = [name |-> "init", n |-> 0, w |-> 0]

WorkerStep(name, w) == [name |-> name, n |-> call.n + 1, w |-> w]

\* The next statement of a worker after one that ended at pc
AfterFinally(pc) == IF pc \in { "finally_temp", "unlink_temp" } THEN "finally_out" ELSE "done"

\* The path a statement of the finally block is about
FinallyPath(wk) ==
    IF wk.pc \in { "finally_temp", "unlink_temp" } THEN wk.temp_path[1] ELSE wk.output_path[1]

\* temp_path = TEMP_DIR / f"batch_{datetime.now().timestamp()}_{filename}"
NameTemp(w) ==
    /\ proc.workers[w].pc = "temp_path"
    /\ \E t \in Now(proc.clock) :
         proc' = [proc EXCEPT !.clock = t,
                              !.workers[w].temp_path =
                                  Some(BatchPath("batch", t, proc.workers[w].filename)),
                              !.workers[w].pc = "output_path"]
    /\ call' = WorkerStep("temp_path", w)
    /\ disk' = disk /\ before' = Snapshot /\ Frame

\* output_path = TEMP_DIR / f"batch_out_{datetime.now().timestamp()}_{filename}"
NameOut(w) ==
    /\ proc.workers[w].pc = "output_path"
    /\ \E t \in Now(proc.clock) :
         proc' = [proc EXCEPT !.clock = t,
                              !.workers[w].output_path =
                                  Some(BatchPath("batch_out", t, proc.workers[w].filename)),
                              !.workers[w].pc = "write"]
    /\ call' = WorkerStep("output_path", w)
    /\ disk' = disk /\ before' = Snapshot /\ Frame

\* with temp_path.open('wb') as f: f.write(content)
WriteTemp(w) ==
    /\ proc.workers[w].pc = "write"
    /\ disk' = [disk EXCEPT ![proc.workers[w].temp_path[1]] = proc.workers[w].content]
    /\ proc' = [proc EXCEPT !.workers[w].pc = "construct"]
    /\ call' = WorkerStep("write", w)
    /\ before' = Snapshot /\ Frame

\* A statement of the try block that ended with outcome r: the next
\* statement is reached, or `except Exception` returns the error dict
Tried(wk, r, next) ==
    IF r.raised = "none"
    THEN [wk EXCEPT !.processor = r.proc, !.pc = next]
    ELSE [wk EXCEPT !.result = Some(WorkerResult(wk.filename, "error")), !.pc = "finally_temp"]

\* processor = DocumentProcessor(str(temp_path))
BatchConstruct(w) ==
    /\ proc.workers[w].pc = "construct"
    /\ proc' = [proc EXCEPT !.workers[w] =
                   Tried(@, Construct(disk, @.temp_path[1]), "load")]
    /\ call' = WorkerStep("DocumentProcessor", w)
    /\ disk' = disk /\ before' = Snapshot /\ Frame

\* processor.load()
BatchLoad(w) ==
    /\ proc.workers[w].pc = "load"
    /\ proc' = [proc EXCEPT !.workers[w] = Tried(@, Load(@.processor, disk), "save")]
    /\ call' = WorkerStep("load", w)
    /\ disk' = disk /\ before' = Snapshot /\ Frame

\* processor.save(str(output_path)); return {"status": "success"}
BatchSave(w) ==
    /\ proc.workers[w].pc = "save"
    /\ disk' = ProcSave(proc.workers[w].processor, disk, proc.workers[w].output_path[1]).disk
    /\ proc' = [proc EXCEPT !.workers[w].result = Some(WorkerResult(proc.workers[w].filename, "success")),
                            !.workers[w].pc = "finally_temp"]
    /\ call' = WorkerStep("save", w)
    /\ before' = Snapshot /\ Frame

\* finally: if temp_path.exists(): ... / if output_path.exists(): ...
FinallyExists(w) ==
    /\ proc.workers[w].pc \in { "finally_temp", "finally_out" }
    /\ proc' = [proc EXCEPT !.workers[w].pc =
                   IF disk[FinallyPath(proc.workers[w])].exists
                   THEN (IF @ = "finally_temp" THEN "unlink_temp" ELSE "unlink_out")
                   ELSE AfterFinally(@)]
    /\ call' = WorkerStep("exists", w)
    /\ disk' = disk /\ before' = Snapshot /\ Frame

\* finally: temp_path.unlink() / output_path.unlink(); FileNotFoundError
\* leaves process_single when the file is no longer there
FinallyUnlink(w) ==
    /\ proc.workers[w].pc \in { "unlink_temp", "unlink_out" }
    /\ IF disk[FinallyPath(proc.workers[w])].exists
       THEN /\ disk' = [disk EXCEPT ![FinallyPath(proc.workers[w])] = Missing]
            /\ proc' = [proc EXCEPT !.workers[w].pc = AfterFinally(@)]
       ELSE /\ disk' = disk
            /\ proc' = [proc EXCEPT !.workers[w].raised = "FileNotFoundError",
                                    !.workers[w].pc = "done"]
    /\ call' = WorkerStep("unlink", w)
    /\ before' = Snapshot /\ Frame

NextBatch ==
    \E w \in 1..2 :
        \/ NameTemp(w) \/ NameOut(w) \/ WriteTemp(w) \/ BatchConstruct(w)
        \/ BatchLoad(w) \/ BatchSave(w) \/ FinallyExists(w) \/ FinallyUnlink(w)

SpecBatch == InitBatch /\ [][NextBatch]_vars

\* What process_single gives for a file processed alone
Alone(wk) ==
    WorkerResult(wk.filename,
           IF wk.content.zip /\ wk.content.size <= MAX_FILE_SIZE /\ wk.content.doc # None
           THEN "success" ELSE "error")

\* C26: under every interleaving of the workers of a batch, each worker
\* loads only the document of its own file, ends without an exception and
\* returns the result its file gives when processed alone, also when two
\* files of the batch have the same filename.
C26_WorkersIsolated ==
    \A w \in 1..2 :
        /\ proc.workers[w].processor # NoProc =>
              proc.workers[w].processor.document \in { None, proc.workers[w].content.doc }
        /\ proc.workers[w].pc = "done" =>
              /\ proc.workers[w].raised = "none"
              /\ proc.workers[w].result = Some(Alone(proc.workers[w]))


(***************************************************************************)
(* The image index and the keys of replace_images_batch                    *)
(***************************************************************************)
\* str(n) for 0 <= n <= 9
Decimal(n) == <<DigitChars[n + 1]>>

\* The batch key that names a listed image: header_s_n, footer_s_n, body_n
KeyFor(img) ==
    CASE img.location = "headers" ->
            Key(<<HEADER, Decimal(img.section_idx), Decimal(img.index)>>)
      [] img.location = "footers" ->
            Key(<<FOOTER, Decimal(img.section_idx), Decimal(img.index)>>)
      [] OTHER -> Key(<<BODY, Decimal(img.index)>>)

\* The relationships of the part a listed image is in
RelsAt(pkg, img) ==
    CASE img.location = "headers" -> pkg.sections[img.section_idx + 1].headerRels
      [] img.location = "footers" -> pkg.sections[img.section_idx + 1].footerRels
      [] OTHER -> pkg.bodyRels

\* Every dict get_all_images_info() lists
Listed(info) ==
    { info.headers[i] : i \in 1..Len(info.headers) }
    \cup { info.footers[i] : i \in 1..Len(info.footers) }
    \cup { info.body[i] : i \in 1..Len(info.body) }

\* C28: for every image get_all_images_info lists with section_idx s and
\* index n, the n-th image relationship of that part has the listed
\* rel_id, and replace_images_batch with the one key header_s_n (footer_s_n,
\* body_n) and an existing file sets the blob of that relationship's image
\* part and of no other.
C28_IndexAgreesWithReplace ==
    \A img \in Listed(GetAllImagesInfo(imageCache)) :
        /\ img.index < Len(ImageRels(RelsAt(package, img)))
        /\ ImageRels(RelsAt(package, img))[img.index + 1].rid = img.rel_id
        /\ ImageRels(RelsAt(package, img))[img.index + 1].target = img.target
        /\ ( /\ call.name = "replace_images_batch"
             /\ Len(call.replacements) = 1
             /\ call.replacements[1].key = KeyFor(img)
             /\ Exists(call.replacements[1].path) )
           => /\ media[img.target].blob = ReadBytes(call.replacements[1].path)
              /\ \A t \in 1..Len(media) :
                    t # img.target => media[t].blob = before.media[t].blob

\* C28 witness: the second header image of the second section, listed with
\* rel_id rId2, was replaced through the key header_1_1.
C28_Witness ==
    /\ call.name = "replace_images_batch"
    /\ Len(call.replacements) = 1
    /\ call.replacements[1].key = Key(<<HEADER, <<"1">>, <<"1">>>>)
    /\ \E img \in Listed(GetAllImagesInfo(imageCache)) :
          /\ KeyFor(img) = call.replacements[1].key
          /\ img.rel_id = "rId2"
          /\ media[img.target].blob = "new1"
          /\ before.media[img.target].blob = "old2"


(***************************************************************************)
(* Scalar substitution as one simultaneous pass                            *)
(***************************************************************************)
\* The entries of data whose token starts at position i of t
TokensAt(t, data, i) == { e \in 1..Len(data) : IsPrefixAt(t, Tok(data[e].key), i) }

\* t from position i on with every token of a key of data replaced by its
\* value, read once from left to right; the values are not read again
RECURSIVE SubstituteFrom(_, _, _)
SubstituteFrom(t, data, i) ==
    IF i > Len(t) THEN <<>>
    ELSE IF TokensAt(t, data, i) = {}
    THEN <<t[i]>> \o SubstituteFrom(t, data, i + 1)
    ELSE data[FirstOf(TokensAt(t, data, i))].value
         \o SubstituteFrom(t, data, i + Len(Tok(data[FirstOf(TokensAt(t, data, i))].key)))

Substitute(t, data) == SubstituteFrom(t, data, 1)

\* C29: after replace_all in format-preserving mode, the text of every run
\* is its text before with every token of a key of the mapping replaced by
\* the key's value in one simultaneous pass: a value is not scanned again,
\* so the order of the mapping's entries does not matter.
C29_SimultaneousSubstitution ==
    PreserveCall =>
        \A p \in ScannedParagraphs(before.document) :
            \A r \in 1..Len(p.runs) :
                ParaById(document, p).runs[r].text = Substitute(p.runs[r].text, call.data)


(***************************************************************************)
(* FooterEditor (src/core/footer_editor.py)                                *)
(***************************************************************************)
\* Number of operations on one editor
MaxEdits == 2

NL == "\n"

\* A section of the document: whether its footer is linked to the previous
\* section's, and the paragraphs of its own footer definition
FootSection(linked, footer) == [header |-> <<>>, footer |-> footer, linked |-> linked]

\* The section (from 1) whose footer definition section k shows: its own,
\* or that of the nearest earlier section that has one; 0 when none has
RECURSIVE Owner(_, _)
Owner(sections, k) ==
    IF ~sections[k].linked THEN k
    ELSE IF k = 1 THEN 0
    ELSE Owner(sections, k - 1)

\* footer.paragraphs of a section no definition is found for: the first
\* section gets a footer definition holding one empty paragraph
AddDefinition(doc) ==
    [doc EXCEPT !.sections[1] = FootSection(FALSE, <<Para(doc.nextId, "Footer", <<>>)>>),
                !.nextId = @ + 1]

WithDefinition(doc, k) == IF Owner(doc.sections, k) = 0 THEN AddDefinition(doc) ELSE doc

\* The section whose paragraphs sections[k].footer.paragraphs are
Defining(doc, k) == IF Owner(doc.sections, k) = 0 THEN 1 ELSE Owner(doc.sections, k)

FootOutcome(doc, raised, ret) == [doc |-> doc, raised |-> raised, ret |-> ret]

\* get_footer(section_idx): IndexError from section_idx >= len(sections)
FooterRaises(doc, sectionIdx) == sectionIdx >= Len(doc.sections)

\* '\n'.join(paragraph.text for paragraph in footer.paragraphs)
JoinedText(paras) == JoinWith([i \in 1..Len(paras) |-> ParaText(paras[i])], <<NL>>)

\* get_footer_text(section_idx)
GetFooterText(doc, sectionIdx) ==
    IF FooterRaises(doc, sectionIdx) THEN FootOutcome(doc, "IndexError", None)
    ELSE FootOutcome(WithDefinition(doc, sectionIdx + 1), "none",
                     Some(JoinedText(WithDefinition(doc, sectionIdx + 1)
                                       .sections[Defining(doc, sectionIdx + 1)].footer)))

\* _extract_run_format of the first run of the first paragraph with runs
WithRuns(paras) == { i \in 1..Len(paras) : paras[i].runs # <<>> }
SavedFormat(paras, preserve) ==
    IF preserve /\ WithRuns(paras) # {}
    THEN paras[FirstOf(WithRuns(paras))].runs[1].fmt
    ELSE DefaultFmt

\* for paragraph in footer.paragraphs: paragraph.clear()
ClearAll(paras) == [i \in 1..Len(paras) |-> ParaClear(paras[i])]

\* The cleared paragraphs with run = paragraph.add_run(text) in the first,
\* which footer.add_paragraph() makes when there is none
WriteFooter(paras, id, text, fmt) ==
    IF paras = <<>> THEN <<Para(id, DefaultStyle, <<Run(text, fmt)>>)>>
    ELSE [ClearAll(paras) EXCEPT ![1].runs = <<Run(text, fmt)>>]

SetFooter(doc, k, paras) ==
    [doc EXCEPT !.sections[k].footer = paras,
                !.nextId = IF doc.sections[k].footer = <<>> THEN @ + 1 ELSE @]

\* update_footer_text(text, section_idx, preserve_format)
UpdateFooterText(doc, text, sectionIdx, preserve) ==
    IF FooterRaises(doc, sectionIdx) THEN FootOutcome(doc, "IndexError", None)
    ELSE FootOutcome(
            SetFooter(WithDefinition(doc, sectionIdx + 1), Defining(doc, sectionIdx + 1),
                      WriteFooter(WithDefinition(doc, sectionIdx + 1)
                                     .sections[Defining(doc, sectionIdx + 1)].footer,
                                  WithDefinition(doc, sectionIdx + 1).nextId, text,
                                  SavedFormat(WithDefinition(doc, sectionIdx + 1)
                                                 .sections[Defining(doc, sectionIdx + 1)].footer,
                                              preserve))),
            "none", None)

\* The loop of apply_to_all_sections from section idx on
RECURSIVE ApplyFrom(_, _, _, _)
ApplyFrom(doc, text, preserve, idx) ==
    IF idx >= Len(doc.sections) THEN doc
    ELSE ApplyFrom(UpdateFooterText(doc, text, idx, preserve).doc, text, preserve, idx + 1)

\* apply_to_all_sections(text, preserve_format): count
ApplyToAllSections(doc, text, preserve) ==
    FootOutcome(ApplyFrom(doc, text, preserve, 0), "none", Some(Len(doc.sections)))

\* Footers: no paragraph, an empty paragraph, one paragraph, two paragraphs
Footers ==
    { <<>>,
      <<Para(1, "Footer", <<>>)>>,
      <<Para(1, "Footer", <<Run(A, "bold")>>)>>,
      <<Para(1, "Footer", <<Run(A, "bold"), Run(B, "italic")>>)>>,
      <<Para(1, "Footer", <<Run(A, "bold")>>), Para(2, "Footer", <<Run(B, "italic")>>)>>,
      <<Para(1, "Footer", <<>>), Para(2, "Footer", <<Run(B, "italic")>>)>> }

SecondFooters == { <<>>, <<Para(3, "Footer", <<Run(X, "bold")>>)>> }

\* One section, or two of which the second may show the footer of the first
FootDocuments ==
    { [body |-> <<>>, sections |-> <<FootSection(FALSE, f)>>, nextId |-> 5] : f \in Footers }
    \cup { [body |-> <<>>, sections |-> <<FootSection(TRUE, <<>>)>>, nextId |-> 5] }
    \cup { [body |-> <<>>,
            sections |-> <<FootSection(FALSE, f), FootSection(l, g)>>,
            nextId |-> 5] :
             f \in Footers, l \in BOOLEAN, g \in SecondFooters }

FooterTexts2 == { <<>>, X, A \o <<NL>> \o B }

InitFoot ==
    /\ document \in FootDocuments
    /\ package = NoPackage
    /\ media = <<>>
    /\ drawings = <<>>
    /\ imageCache = NoCache
    /\ disk = NoDisk
    /\ proc = NoProc
    /\ before = Snapshot
    /\ call = NoCall

FootCall(name, n, text, sectionIdx, r) ==
    [name |-> name, n |-> n, text |-> text, section_idx |-> sectionIdx,
     raised |-> r.raised, ret |-> r.ret, doc |-> r.doc]

\* editor.update_footer_text(text, section_idx, preserve_format)
DoUpdateFooterText ==
    /\ call.n < MaxEdits
    /\ \E text \in FooterTexts2, sectionIdx \in 0..2, preserve \in BOOLEAN :
         call' = FootCall("update_footer_text", call.n + 1, text, sectionIdx,
                          UpdateFooterText(document, text, sectionIdx, preserve))
    /\ document' = call'.doc
    /\ before' = Snapshot
    /\ UNCHANGED <<package, disk, proc, media, drawings, imageCache>>

\* editor.get_footer_text(section_idx)
DoGetFooterText ==
    /\ call.n < MaxEdits
    /\ \E sectionIdx \in 0..2 :
         call' = FootCall("get_footer_text", call.n + 1, <<>>, sectionIdx,
                          GetFooterText(document, sectionIdx))
    /\ document' = call'.doc
    /\ before' = Snapshot
    /\ UNCHANGED <<package, disk, proc, media, drawings, imageCache>>

\* editor.apply_to_all_sections(text, preserve_format)
DoApplyToAllSections ==
    /\ call.n < MaxEdits
    /\ \E text \in FooterTexts2, preserve \in BOOLEAN :
         call' = FootCall("apply_to_all_sections", call.n + 1, text, 0,
                          ApplyToAllSections(document, text, preserve))
    /\ document' = call'.doc
    /\ before' = Snapshot
    /\ UNCHANGED <<package, disk, proc, media, drawings, imageCache>>

NextFoot == DoUpdateFooterText \/ DoGetFooterText \/ DoApplyToAllSections

SpecFoot == InitFoot /\ [][NextFoot]_vars

\* C30: after update_footer_text(text, section_idx) get_footer_text of that
\* section returns text, whatever the footer held; apply_to_all_sections
\* returns the number of sections, after which get_footer_text of every
\* section returns text.
C30_FooterRoundTrip ==
    /\ (call.name = "update_footer_text" /\ call.raised = "none") =>
          GetFooterText(document, call.section_idx).ret = Some(call.text)
    /\ call.name = "apply_to_all_sections" =>
          /\ call.ret = Some(Len(document.sections))
          /\ \A s \in 0..(Len(document.sections) - 1) :
                GetFooterText(document, s).ret = Some(call.text)

=============================================================================
